---- MODULE Spec2Model ----
(***************************************************************************)
(* State-machine model of the real-circuit simulator core: the circuit     *)
(* store's simulation coordinator (src/src/store/circuitStore.ts), the MNA *)
(* solver (src/src/simulation/CircuitSolver.ts) and the per-kind component *)
(* state models (src/src/components/circuits/*, src/unnamed/part_00x).     *)
(*                                                                         *)
(* Numbers.  A JavaScript number is modelled as an exact rational <<n, d>> *)
(* in lowest terms with d > 0, extended with the three IEEE specials       *)
(* <<1, 0>> (+Infinity), <<-1, 0>> (-Infinity) and <<0, 0>> (NaN).  The    *)
(* arithmetic below follows the IEEE rules for the specials (x/0, 0/0,     *)
(* Inf-Inf, 0*Inf, comparisons with NaN are false); rounding error and the *)
(* sign of zero are not modelled.                                          *)
(***************************************************************************)
EXTENDS Integers, Sequences, FiniteSets, TLC

\* ------------------------------------------------------------------------
\* Numbers
\* ------------------------------------------------------------------------
AbsI(i) == IF i < 0 THEN -i ELSE i
SgnI(i) == IF i < 0 THEN -1 ELSE IF i > 0 THEN 1 ELSE 0

RECURSIVE Gcd(_, _)
Gcd(a, b) == IF b = 0 THEN a ELSE Gcd(b, a % b)

\* The number n/d, normalised; a zero denominator yields Infinity or NaN.
Q(n, d) ==
    IF d = 0 THEN <<SgnI(n), 0>>
    ELSE LET g == Gcd(AbsI(n), AbsI(d))
             s == IF d < 0 THEN -1 ELSE 1
         IN  <<s * (n \div g), s * (d \div g)>>

N(i) == <<i, 1>>
Zero == <<0, 1>>
NaN == <<0, 0>>
PosInf == <<1, 0>>
NegInf == <<-1, 0>>

IsNaN(x) == x = NaN
IsFiniteQ(x) == x[2] # 0
IsZero(x) == x = Zero
SgnQ(x) == SgnI(x[1])

NegQ(x) == <<-x[1], x[2]>>
AbsQ(x) == <<AbsI(x[1]), x[2]>>

AddQ(a, b) ==
    IF IsNaN(a) \/ IsNaN(b) THEN NaN
    ELSE IF ~IsFiniteQ(a) /\ ~IsFiniteQ(b) THEN (IF a = b THEN a ELSE NaN)
    ELSE IF ~IsFiniteQ(a) THEN a
    ELSE IF ~IsFiniteQ(b) THEN b
    ELSE LET g == Gcd(a[2], b[2])
         IN  Q(a[1] * (b[2] \div g) + b[1] * (a[2] \div g), a[2] * (b[2] \div g))

SubQ(a, b) == AddQ(a, NegQ(b))

MulQ(a, b) ==
    IF IsNaN(a) \/ IsNaN(b) THEN NaN
    ELSE IF ~IsFiniteQ(a) \/ ~IsFiniteQ(b)
         THEN (IF IsZero(a) \/ IsZero(b) THEN NaN ELSE <<SgnQ(a) * SgnQ(b), 0>>)
    ELSE LET g1 == Gcd(AbsI(a[1]), b[2])
             g2 == Gcd(AbsI(b[1]), a[2])
         IN  Q((a[1] \div g1) * (b[1] \div g2), (a[2] \div g2) * (b[2] \div g1))

DivQ(a, b) ==
    IF IsNaN(a) \/ IsNaN(b) THEN NaN
    ELSE IF ~IsFiniteQ(b) THEN (IF IsFiniteQ(a) THEN Zero ELSE NaN)
    ELSE IF IsZero(b) THEN (IF IsZero(a) THEN NaN ELSE <<SgnQ(a), 0>>)
    ELSE IF ~IsFiniteQ(a) THEN <<SgnQ(a) * SgnQ(b), 0>>
    ELSE MulQ(a, Q(b[2] * SgnQ(b), AbsI(b[1])))

\* a < b as JavaScript evaluates it (false whenever an operand is NaN).
LtQ(a, b) ==
    IF IsNaN(a) \/ IsNaN(b) THEN FALSE
    ELSE IF a = b THEN FALSE
    ELSE IF a = NegInf \/ b = PosInf THEN TRUE
    ELSE IF a = PosInf \/ b = NegInf THEN FALSE
    ELSE LET fa == a[1] \div a[2]
             fb == b[1] \div b[2]
             g == Gcd(a[2], b[2])
         IN  IF fa # fb THEN fa < fb
             ELSE (a[1] % a[2]) * (b[2] \div g) < (b[1] % b[2]) * (a[2] \div g)

GtQ(a, b) == LtQ(b, a)
LeQ(a, b) == ~IsNaN(a) /\ ~IsNaN(b) /\ ~LtQ(b, a)

\* Math.max / Math.min
MaxQ(a, b) == IF IsNaN(a) \/ IsNaN(b) THEN NaN ELSE IF LtQ(a, b) THEN b ELSE a
MinQ(a, b) == IF IsNaN(a) \/ IsNaN(b) THEN NaN ELSE IF LtQ(b, a) THEN b ELSE a

\* Math.abs(a - b) > eps, for finite a and b without forming a - b
FartherThan(a, b, eps) ==
    IF IsFiniteQ(a) /\ IsFiniteQ(b)
    THEN GtQ(a, AddQ(b, eps)) \/ LtQ(a, SubQ(b, eps))
    ELSE GtQ(AbsQ(SubQ(a, b)), eps)

\* JavaScript's  x || dflt  on a number: 0 and NaN are falsy.
OrElse(x, dflt) == IF IsNaN(x) \/ IsZero(x) THEN dflt ELSE x

\* ------------------------------------------------------------------------
\* Program constants
\* ------------------------------------------------------------------------
NearInfiniteOhms == 1000000000
DefaultResistorOhms == 1000
DefaultSourceVolts == 5
GroundIndex == -1

NearInfinite == N(NearInfiniteOhms)
NearZero == Q(1, 100)

ResistiveTypes ==
    {"resistor", "led", "diode", "capacitor", "inductor", "potentiometer",
     "switch", "fuse", "lamp"}
VoltageBearingTypes == {"voltage_source", "battery", "ground"}

\* ------------------------------------------------------------------------
\* CircuitSolver.identifyNodes
\* ------------------------------------------------------------------------
\* Sequence helpers
RECURSIVE FlattenSeq(_)
FlattenSeq(ss) == IF ss = <<>> THEN <<>> ELSE Head(ss) \o FlattenSeq(Tail(ss))

SeqToSet(s) == {s[i] : i \in 1..Len(s)}

\* The keys of the parent map, in insertion order: every terminal id of every
\* component, component by component.
TerminalIds(comps) ==
    FlattenSeq([i \in 1..Len(comps) |->
                  [k \in 1..Len(comps[i].terminals) |-> comps[i].terminals[k].id]])

\* A variant that climbs one step only; C13 tells the code from it.
FindOneStep(parent, i) == parent[i]

\* find: the root of i (path compression does not change any root).
RECURSIVE Find(_, _)
Find(parent, i) == IF parent[i] = i THEN i ELSE Find(parent, parent[i])

\* union: the root of i is attached below the root of j.
Union(parent, i, j) ==
    LET rootI == Find(parent, i)
        rootJ == Find(parent, j)
    IN  IF rootI # rootJ THEN [parent EXCEPT ![rootI] = rootJ] ELSE parent

\* One union per wire whose two endpoints are keys of the parent map.
RECURSIVE UnionWires(_, _, _)
UnionWires(parent, ws, k) ==
    IF k > Len(ws) THEN parent
    ELSE LET w == ws[k]
             p == IF w.fromTerminal \in DOMAIN parent /\ w.toTerminal \in DOMAIN parent
                  THEN Union(parent, w.fromTerminal, w.toTerminal)
                  ELSE parent
         IN  UnionWires(p, ws, k + 1)

ParentMap(comps, ws) ==
    LET tids == SeqToSet(TerminalIds(comps))
    IN  UnionWires([t \in tids |-> t], ws, 1)

\* terminalToNode
TerminalToNode(comps, ws) ==
    LET parent == ParentMap(comps, ws)
    IN  [t \in DOMAIN parent |-> Find(parent, t)]

\* The keys of the nodes map in insertion (discovery) order.
RECURSIVE DiscoverNodes(_, _, _, _)
DiscoverNodes(t2n, tids, k, acc) ==
    IF k > Len(tids) THEN acc
    ELSE LET root == t2n[tids[k]]
         IN  DiscoverNodes(t2n, tids, k + 1,
                           IF root \in SeqToSet(acc) THEN acc ELSE Append(acc, root))

NodeIds(comps, ws) == DiscoverNodes(TerminalToNode(comps, ws), TerminalIds(comps), 1, <<>>)

\* nodes: node id -> its member terminals, in discovery order
NodeMembers(comps, ws) ==
    LET t2n == TerminalToNode(comps, ws)
        tids == TerminalIds(comps)
    IN  [r \in SeqToSet(NodeIds(comps, ws)) |->
            SelectSeq(tids, LAMBDA t : t2n[t] = r)]

\* The component the ground is taken from: the first one the find() at
\* line 90 accepts.
IsGroundSourceType(type) == type = "voltage_source"

NoNode == <<>>

\* groundNodeId of lines 89-97 (NoNode models null).
GroundFromSource(comps, ws) ==
    LET idx == {i \in 1..Len(comps) : IsGroundSourceType(comps[i].type)}
    IN  IF idx = {} THEN NoNode
        ELSE LET vSource == comps[CHOOSE i \in idx : \A j \in idx : i <= j]
             IN  IF Len(vSource.terminals) >= 2
                 THEN TerminalToNode(comps, ws)[vSource.terminals[2].id]
                 ELSE NoNode

\* A variant without the fallback to the first node; C12 tells the code from
\* it.
GroundNodeFromSourceOnly(comps, ws) == GroundFromSource(comps, ws)

\* The node that receives the ground sentinel (NoNode when there is no node).
GroundNode(comps, ws) ==
    LET g == GroundFromSource(comps, ws)
        nodeIds == NodeIds(comps, ws)
    IN  IF g # NoNode THEN g
        ELSE IF Len(nodeIds) > 0 THEN nodeIds[1]
        ELSE NoNode

\* A variant that numbers the nodes by their position, the ground node's
\* position included; C15 tells the code from it.
NodeIndexByPosition(comps, ws) ==
    LET nodeIds == NodeIds(comps, ws)
        g == GroundNode(comps, ws)
    IN  [r \in SeqToSet(nodeIds) |->
            IF r = g THEN GroundIndex
            ELSE (CHOOSE k \in 1..Len(nodeIds) : nodeIds[k] = r) - 1]

\* nodeIndex: the sentinel for the ground node, 0, 1, ... for the others in
\* discovery order.
NodeIndex(comps, ws) ==
    LET nodeIds == NodeIds(comps, ws)
        g == GroundNode(comps, ws)
        rank(k) == Cardinality({m \in 1..(k - 1) : nodeIds[m] # g})
    IN  [r \in SeqToSet(nodeIds) |->
            IF r = g THEN GroundIndex
            ELSE rank(CHOOSE k \in 1..Len(nodeIds) : nodeIds[k] = r)]

\* ------------------------------------------------------------------------
\* CircuitSolver.gaussianElimination
\* ------------------------------------------------------------------------
\* Matrices are functions 0..n-1 -> (0..n-1 -> number), vectors 0..n-1 -> number.

\* The pivot row for column i: the first row whose |A[k][i]| is strictly
\* larger than every earlier candidate's, starting from row i.
RECURSIVE PivotRow(_, _, _, _, _, _)
PivotRow(A, n, i, k, maxEl, maxRow) ==
    IF k >= n THEN maxRow
    ELSE IF GtQ(AbsQ(A[k][i]), maxEl)
         THEN PivotRow(A, n, i, k + 1, AbsQ(A[k][i]), k)
         ELSE PivotRow(A, n, i, k + 1, maxEl, maxRow)

\* Rows i and maxRow exchanged in the columns i..n-1.
SwapRows(A, n, i, maxRow) ==
    [r \in 0..(n - 1) |->
        IF r = i THEN [c \in 0..(n - 1) |-> IF c >= i THEN A[maxRow][c] ELSE A[i][c]]
        ELSE IF r = maxRow
             THEN [c \in 0..(n - 1) |-> IF c >= i THEN A[i][c] ELSE A[maxRow][c]]
        ELSE A[r]]

SwapEntries(b, i, maxRow) ==
    [r \in DOMAIN b |-> IF r = i THEN b[maxRow] ELSE IF r = maxRow THEN b[i] ELSE b[r]]

\* One column of the forward elimination (lines 339-370): pivot search, row
\* exchange, elimination below the pivot.  The pivot is divided by whatever
\* its magnitude.
EliminateColumn(A, b, n, i) ==
    LET maxRow == PivotRow(A, n, i, i + 1, AbsQ(A[i][i]), i)
        A1 == SwapRows(A, n, i, maxRow)
        b1 == SwapEntries(b, i, maxRow)
        c(k) == DivQ(NegQ(A1[k][i]), A1[i][i])
    IN  [A |-> [k \in 0..(n - 1) |->
                  IF k <= i THEN A1[k]
                  ELSE [j \in 0..(n - 1) |->
                          IF j < i THEN A1[k][j]
                          ELSE IF j = i THEN Zero
                          ELSE AddQ(A1[k][j], MulQ(c(k), A1[i][j]))]],
         b |-> [k \in 0..(n - 1) |->
                  IF k <= i THEN b1[k] ELSE AddQ(b1[k], MulQ(c(k), b1[i]))]]

RECURSIVE ForwardElimination(_, _, _, _)
ForwardElimination(A, b, n, i) ==
    IF i >= n THEN [A |-> A, b |-> b]
    ELSE LET e == EliminateColumn(A, b, n, i)
         IN  ForwardElimination(e.A, e.b, n, i + 1)

\* sum of A[i][j] * x[j] for j = i+1 .. n-1, added left to right from 0
RECURSIVE DotTail(_, _, _, _, _, _)
DotTail(A, x, n, i, j, sum) ==
    IF j >= n THEN sum
    ELSE DotTail(A, x, n, i, j + 1, AddQ(sum, MulQ(A[i][j], x[j])))

RECURSIVE BackSubstitution(_, _, _, _, _)
BackSubstitution(A, b, n, i, x) ==
    IF i < 0 THEN x
    ELSE LET sum == DotTail(A, x, n, i, i + 1, Zero)
             xi == DivQ(SubQ(b[i], sum), A[i][i])
         IN  BackSubstitution(A, b, n, i - 1, [x EXCEPT ![i] = xi])

\* gaussianElimination(A, b): the returned vector x.  No path of the function
\* throws.
GaussianElimination(A, b, n) ==
    LET f == ForwardElimination(A, b, n, 0)
    IN  BackSubstitution(f.A, f.b, n, n - 1, [k \in 0..(n - 1) |-> Zero])

\* Does the forward elimination meet a pivot of magnitude zero (or NaN) after
\* its row exchange?  With exact arithmetic this is the structurally singular
\* system.
RECURSIVE MeetsZeroPivot(_, _, _, _)
MeetsZeroPivot(A, b, n, i) ==
    IF i >= n THEN FALSE
    ELSE LET maxRow == PivotRow(A, n, i, i + 1, AbsQ(A[i][i]), i)
             pivot == A[maxRow][i]
             e == EliminateColumn(A, b, n, i)
         IN  IsZero(pivot) \/ IsNaN(pivot) \/ MeetsZeroPivot(e.A, e.b, n, i + 1)

\* ------------------------------------------------------------------------
\* CircuitSolver.solveMNA
\* ------------------------------------------------------------------------
\* A variant that stamps every component with the default resistance; C20
\* tells the code from it.
StampResistanceDefault(comp) == N(DefaultResistorOhms)

\* The resistance stamped for a resistive component (lines 156-197).
StampResistance(comp) ==
    CASE comp.type = "resistor" -> OrElse(comp.properties.value, N(DefaultResistorOhms))
      [] comp.type = "led" -> N(50)
      [] comp.type = "diode" -> N(100)
      [] comp.type = "capacitor" -> NearInfinite
      [] comp.type = "inductor" -> NearZero
      [] comp.type = "potentiometer" ->
            MaxQ(OrElse(comp.properties.value, N(DefaultResistorOhms)), NearZero)
      [] comp.type = "switch" -> IF comp.properties.closed THEN NearZero ELSE NearInfinite
      [] comp.type = "fuse" -> IF comp.properties.blown THEN NearInfinite ELSE NearZero
      [] comp.type = "lamp" -> MaxQ(OrElse(comp.properties.resistance, N(100)), NearZero)

\* addG (lines 136-152): i, j are the row indices of the two terminals' nodes.
AddG(G, i, j, g) ==
    LET G1 == IF i # GroundIndex THEN [G EXCEPT ![i][i] = AddQ(@, g)] ELSE G
        G2 == IF i # GroundIndex /\ j # GroundIndex
              THEN [G1 EXCEPT ![i][j] = SubQ(@, g)] ELSE G1
        G3 == IF j # GroundIndex THEN [G2 EXCEPT ![j][j] = AddQ(@, g)] ELSE G2
        G4 == IF j # GroundIndex /\ i # GroundIndex
              THEN [G3 EXCEPT ![j][i] = SubQ(@, g)] ELSE G3
    IN  G4

\* The row index of the node of a component's k-th terminal (k = 1, 2), given
\* nodeIndex and terminalToNode.
TerminalRow(ni, t2n, comp, k) == ni[t2n[comp.terminals[k].id]]

RECURSIVE StampComponents(_, _, _, _, _)
StampComponents(comps, ni, t2n, k, G) ==
    IF k > Len(comps) THEN G
    ELSE LET comp == comps[k]
         IN  StampComponents(comps, ni, t2n, k + 1,
                IF comp.type \in ResistiveTypes
                THEN AddG(G, TerminalRow(ni, t2n, comp, 1), TerminalRow(ni, t2n, comp, 2),
                          DivQ(N(1), StampResistance(comp)))
                ELSE G)

\* voltageSources (lines 124-128), in component order
VoltageSources(comps) == SelectSeq(comps, LAMBDA c : c.type \in VoltageBearingTypes)

\* numNodes (line 121)
NumNodes(ni) ==
    Cardinality(DOMAIN ni) - (IF \E r \in DOMAIN ni : ni[r] = GroundIndex THEN 1 ELSE 0)

\* The right-hand side of a voltage source's branch row (line 203).
BranchVoltage(vs) == OrElse(vs.properties.voltage, N(DefaultSourceVolts))

RECURSIVE StampVoltageSources(_, _, _, _, _, _)
StampVoltageSources(vss, ni, t2n, idx, G, I) ==
    IF idx >= Len(vss) THEN [G |-> G, I |-> I]
    ELSE LET vs == vss[idx + 1]
             vIndex == NumNodes(ni) + idx
             posIdx == TerminalRow(ni, t2n, vs, 1)
             negIdx == TerminalRow(ni, t2n, vs, 2)
             G1 == IF posIdx # GroundIndex
                   THEN [G EXCEPT ![posIdx][vIndex] = N(1), ![vIndex][posIdx] = N(1)]
                   ELSE G
             G2 == IF negIdx # GroundIndex
                   THEN [G1 EXCEPT ![negIdx][vIndex] = N(-1), ![vIndex][negIdx] = N(-1)]
                   ELSE G1
         IN  StampVoltageSources(vss, ni, t2n, idx + 1, G2,
                                 [I EXCEPT ![vIndex] = BranchVoltage(vs)])

MatrixSize(comps, ni) == NumNodes(ni) + Len(VoltageSources(comps))

\* The assembled system G, I handed to gaussianElimination, with its size and
\* the two maps identifyNodes left.
AssembleSystem(comps, ws) ==
    LET System(ni, t2n, size, stamped) ==
            [G |-> stamped.G, I |-> stamped.I, size |-> size, nodeIndex |-> ni,
             terminalToNode |-> t2n]
        Stamped(ni, t2n, size) ==
            System(ni, t2n, size,
                   StampVoltageSources(
                       VoltageSources(comps), ni, t2n, 0,
                       StampComponents(comps, ni, t2n, 1,
                           [r \in 0..(size - 1) |-> [c \in 0..(size - 1) |-> Zero]]),
                       [r \in 0..(size - 1) |-> Zero]))
        Sized(ni, t2n) == Stamped(ni, t2n, MatrixSize(comps, ni))
    IN  Sized(NodeIndex(comps, ws), TerminalToNode(comps, ws))

\* Reading terminals[1].id of a component with fewer than two terminals is a
\* TypeError (lines 159-206, 246-247); every component is visited at 245-247.
SolveThrows(comps) == \E k \in 1..Len(comps) : Len(comps[k].terminals) < 2

\* Is the assembled system of the circuit structurally singular?
SingularSystem(comps, ws) ==
    LET Singular(sys) == MeetsZeroPivot(sys.G, sys.I, sys.size, 0)
    IN  Singular(AssembleSystem(comps, ws))

\* nodeVoltages (lines 236-242): node id -> voltage, from the solution x
NodeVoltages(ni, x) ==
    [r \in DOMAIN ni |-> IF ni[r] = GroundIndex THEN Zero ELSE x[ni[r]]]

\* vDrop of a component (lines 246-250)
VDrop(t2n, nv, comp) ==
    LET v1 == OrElse(nv[t2n[comp.terminals[1].id]], Zero)
        v2 == OrElse(nv[t2n[comp.terminals[2].id]], Zero)
    IN  SubQ(v1, v2)

\* The index of a component among the voltage sources, 0-based (line 285).
VsIndex(comps, comp) ==
    LET vss == VoltageSources(comps)
    IN  (CHOOSE k \in 1..Len(vss) : vss[k].id = comp.id) - 1

\* Does componentCurrents hold an entry for the component (lines 254-291)?
HasSolvedCurrent(comp) == comp.type \in ResistiveTypes \cup VoltageBearingTypes

\* solve(): the SimulationResult, for component and wire lists on which
\* SolveThrows is false.  Maps are functions over their keys.
Solve(comps, ws) ==
    LET ids == {comps[k].id : k \in 1..Len(comps)}
        byId(id) == comps[CHOOSE k \in 1..Len(comps) : comps[k].id = id]
        owner(t) == LET own == {k \in 1..Len(comps) :
                                  \E m \in 1..Len(comps[k].terminals) :
                                      comps[k].terminals[m].id = t}
                    IN  comps[CHOOSE k \in own : \A j \in own : j <= k].id
        \* lines 294-328, given the maps built so far
        Result(t2n, nv, cv, cc, solvedWires) ==
            [nodeVoltages |-> nv,
             componentVoltages |-> cv,
             componentCurrents |-> cc,
             wireVoltages |-> [id \in {ws[k].id : k \in solvedWires} |->
                  LET w == ws[CHOOSE k \in solvedWires : ws[k].id = id]
                  IN  DivQ(AddQ(OrElse(nv[t2n[w.fromTerminal]], Zero),
                                OrElse(nv[t2n[w.toTerminal]], Zero)), N(2))],
             wireCurrents |-> [id \in {ws[k].id : k \in solvedWires} |->
                  LET w == ws[CHOOSE k \in solvedWires : ws[k].id = id]
                  IN  AbsQ(IF owner(w.fromTerminal) \in DOMAIN cc
                           THEN OrElse(cc[owner(w.fromTerminal)], Zero) ELSE Zero)]]
        \* lines 252-292: componentCurrents
        Currents(x, numNodes, t2n, nv, cv) ==
            Result(t2n, nv, cv,
                   [id \in {i \in ids : HasSolvedCurrent(byId(i))} |->
                      IF byId(id).type \in ResistiveTypes
                      THEN DivQ(cv[id], StampResistance(byId(id)))
                      ELSE x[numNodes + VsIndex(comps, byId(id))]],
                   {k \in 1..Len(ws) :
                      ws[k].fromTerminal \in DOMAIN t2n /\ ws[k].toTerminal \in DOMAIN t2n})
        \* lines 244-250: componentVoltages
        Voltages(x, numNodes, t2n, nv) ==
            Currents(x, numNodes, t2n, nv, [id \in ids |-> VDrop(t2n, nv, byId(id))])
        \* lines 236-242: nodeVoltages from the solution x
        Solved(sys, x) ==
            Voltages(x, NumNodes(sys.nodeIndex), sys.terminalToNode,
                     NodeVoltages(sys.nodeIndex, x))
        \* line 226
        Assembled(sys) == Solved(sys, GaussianElimination(sys.G, sys.I, sys.size))
    IN  Assembled(AssembleSystem(comps, ws))

\* ------------------------------------------------------------------------
\* Components (BaseComponent and the per-kind classes)
\* ------------------------------------------------------------------------
\* createTerminal: the terminal id is `${componentId}-${name}`, modelled as
\* the pair <<componentId, name>>.
CreateTerminal(cid, name) ==
    [id |-> <<cid, name>>, componentId |-> cid, name |-> name,
     voltage |-> Zero, current |-> Zero]

\* A component object.  methods tells whether the object carries its class's
\* simulate/checkErrors (a class instance) or is the plain record that
\* addComponent builds from the instance's fields (circuitStore.ts 54-72).
Component(cid, type, names, props, methods) ==
    [id |-> cid, type |-> type,
     terminals |-> [k \in 1..Len(names) |-> CreateTerminal(cid, names[k])],
     properties |-> props, methods |-> methods, selected |-> FALSE, error |-> FALSE]

\* nodeVoltages.get(terminalId) || 0
NvGet(nv, tid) == IF tid \in DOMAIN nv THEN OrElse(nv[tid], Zero) ELSE Zero

\* The four terminal writes that end most simulate methods.
SetTerminals(comp, v1, v2, i1, i2) ==
    [comp EXCEPT !.terminals[1].voltage = v1, !.terminals[2].voltage = v2,
                 !.terminals[1].current = i1, !.terminals[2].current = i2]

\* Number.prototype.toFixed(d): the value rounded to d decimals (half away
\* from zero), computed digit by digit.
RECURSIVE FixedDigits(_, _, _, _)
FixedDigits(acc, rem, den, d) ==
    IF d = 0 THEN (IF 2 * rem >= den THEN acc + 1 ELSE acc)
    ELSE FixedDigits(10 * acc + ((10 * rem) \div den), (10 * rem) % den, den, d - 1)

RECURSIVE Pow10(_)
Pow10(d) == IF d = 0 THEN 1 ELSE 10 * Pow10(d - 1)

ToFixed(x, d) ==
    IF ~IsFiniteQ(x) THEN x
    ELSE LET n == AbsI(x[1])
         IN  Q(SgnQ(x) * FixedDigits(n \div x[2], n % x[2], x[2], d), Pow10(d))

\* A variant in which every fault halts; C21 tells the code from it.
FaultHalting(cid, tag, severity, message, stop) ==
    [id |-> <<cid, tag, 0>>, severity |-> severity, message |-> message,
     componentIds |-> <<cid>>, stopSimulation |-> TRUE]

\* A CircuitError.  id is `${componentId}-${tag}` or a fresh uuid, modelled as
\* <<owner, tag, serial>>; message is the template's name followed by the
\* values interpolated into it; the timestamp is not modelled.
Fault(cid, tag, severity, message, stop) ==
    [id |-> <<cid, tag, 0>>, severity |-> severity, message |-> message,
     componentIds |-> <<cid>>, stopSimulation |-> stop]

\* ---- Resistor ----------------------------------------------------------
Resistor(cid, resistance, methods) ==
    Component(cid, "resistor", <<"terminal1", "terminal2">>,
              [value |-> resistance, voltage |-> Zero, current |-> Zero,
               power |-> Zero, temperature |-> N(25)], methods)

ResistorSimulate(comp, deltaTime, nv) ==
    IF Len(comp.terminals) < 2 THEN comp
    ELSE LET v1 == NvGet(nv, comp.terminals[1].id)
             v2 == NvGet(nv, comp.terminals[2].id)
             voltage == AbsQ(SubQ(v1, v2))
             r == OrElse(comp.properties.value, N(1))
             current == DivQ(voltage, r)
             power == MulQ(MulQ(current, current), r)
             c1 == [comp EXCEPT !.properties.voltage = voltage,
                                !.properties.current = current,
                                !.properties.power = power,
                                !.properties.temperature = AddQ(N(25), MulQ(power, N(50)))]
         IN  SetTerminals(c1, v1, v2, current, NegQ(current))

ResistorCheckErrors(comp) ==
    LET p == comp.properties
        power == OrElse(p.power, Zero)
        cur == AbsQ(OrElse(p.current, Zero))
    IN  (IF GtQ(power, N(10))
         THEN <<Fault(comp.id, "critical-overpower", "critical",
                      <<"DANGER! Resistor power", ToFixed(p.power, 2)>>, TRUE)>>
         ELSE <<>>)
        \o (IF GtQ(power, Q(1, 4)) /\ LeQ(power, N(10))
            THEN <<Fault(comp.id, "overpower", "warning",
                         <<"Resistor power dissipation", ToFixed(p.power, 2)>>, FALSE)>>
            ELSE <<>>)
        \o (IF GtQ(cur, N(10))
            THEN <<Fault(comp.id, "overcurrent", "critical",
                         <<"DANGER! Resistor current", ToFixed(cur, 2)>>, TRUE)>>
            ELSE <<>>)
        \o (IF GtQ(OrElse(p.temperature, Zero), N(150))
            THEN <<Fault(comp.id, "overtemp", "error",
                         <<"Resistor temperature", ToFixed(p.temperature, 1)>>, TRUE)>>
            ELSE <<>>)

\* ---- Fuse --------------------------------------------------------------
BlowThreshold == 2

Fuse(cid, rating, methods) ==
    Component(cid, "fuse", <<"in", "out">>,
              [rating |-> rating, voltage |-> Zero, current |-> Zero, power |-> Zero,
               blown |-> FALSE, resistance |-> NearZero, heatAccumulated |-> Zero,
               maxCurrent |-> rating], methods)

\* A variant that adds ratio times deltaTime; C8 tells the code from it.
HeatAddedLinear(currentRatio, deltaTime) == MulQ(currentRatio, deltaTime)

\* Line 59: the heat one overcurrent tick adds.
HeatAdded(currentRatio, deltaTime) == MulQ(MulQ(currentRatio, currentRatio), deltaTime)

\* A variant that leaves current and power as they were; C7 tells the code
\* from it.
FuseOpenConducting(p) == [p EXCEPT !.resistance = NearInfinite]

\* Lines 46-50: the blown fuse as an open circuit.
FuseOpen(p) == [p EXCEPT !.resistance = NearInfinite, !.current = Zero, !.power = Zero]

FuseSimulate(comp, deltaTime, nv) ==
    IF Len(comp.terminals) < 2 THEN comp
    ELSE LET v1 == NvGet(nv, comp.terminals[1].id)
             v2 == NvGet(nv, comp.terminals[2].id)
             voltage == SubQ(v1, v2)
             p1 == [comp.properties EXCEPT !.voltage = voltage,
                                           !.maxCurrent = comp.properties.rating]
             current == DivQ(voltage, NearZero)
             currentRatio == DivQ(AbsQ(current), p1.rating)
             heated == AddQ(p1.heatAccumulated, HeatAdded(currentRatio, deltaTime))
             \* lines 52-69
             Conducting(q, ratio, heat) ==
                 IF GtQ(ratio, N(1))
                 THEN [q EXCEPT !.heatAccumulated = heat,
                                !.blown = GtQ(heat, N(BlowThreshold))]
                 ELSE [q EXCEPT !.heatAccumulated =
                          MaxQ(Zero, SubQ(@, MulQ(deltaTime, Q(1, 2))))]
             \* lines 72-75
             Done(p2) == SetTerminals([comp EXCEPT !.properties = p2], v1, v2,
                                      p2.current, NegQ(p2.current))
         IN  Done(IF p1.blown
                  THEN FuseOpen(p1)
                  ELSE Conducting([p1 EXCEPT !.resistance = NearZero, !.current = current,
                                             !.power = AbsQ(MulQ(voltage, current))],
                                  currentRatio, heated))

FuseCheckErrors(comp) ==
    IF comp.properties.blown
    THEN <<Fault(comp.id, "blown", "error",
                 <<"Fuse blown! Overcurrent protection activated", comp.properties.rating>>,
                 TRUE)>>
    ELSE <<>>

\* Fuse.replace()
FuseReplace(comp) ==
    [comp EXCEPT !.properties.blown = FALSE, !.properties.heatAccumulated = Zero]

\* ---- Lamp --------------------------------------------------------------
\* Math.sqrt(q) kept exact: the value whose square is q.  Math.min(Math.sqrt(r),
\* 1.5) is the square root of min(r, 2.25), since the root is monotone.
SqrtOf(q) == [sq |-> q]

Lamp(cid, voltageRating, powerRating, methods) ==
    Component(cid, "lamp", <<"t1", "t2">>,
              [voltageRating |-> voltageRating, powerRating |-> powerRating,
               resistance |-> DivQ(MulQ(voltageRating, voltageRating), powerRating),
               voltage |-> Zero, current |-> Zero, power |-> Zero,
               brightness |-> SqrtOf(Zero), broken |-> FALSE,
               maxPower |-> MulQ(powerRating, Q(3, 2))], methods)

\* A variant that burns the lamp out above its rated power; C9 tells the code
\* from it.
BurnsOutAtRating(power, maxPower) == GtQ(MulQ(power, Q(3, 2)), maxPower)

\* Line 70: the burn-out test.
BurnsOut(power, maxPower) == GtQ(power, maxPower)

LampSimulate(comp, deltaTime, nv) ==
    IF Len(comp.terminals) < 2 THEN comp
    ELSE LET v1 == NvGet(nv, comp.terminals[1].id)
             v2 == NvGet(nv, comp.terminals[2].id)
             voltage == SubQ(v1, v2)
             p0 == [comp.properties EXCEPT !.voltage = voltage]
             targetR == DivQ(MulQ(p0.voltageRating, p0.voltageRating), p0.powerRating)
             \* lines 76-79
             Done(p2) == SetTerminals([comp EXCEPT !.properties = p2], v1, v2,
                                      p2.current, NegQ(p2.current))
             \* lines 60-73
             Lit(p1, current, power) ==
                 Done([p1 EXCEPT !.current = current, !.power = power,
                                 !.brightness =
                                     SqrtOf(MinQ(DivQ(power, p1.powerRating), Q(9, 4))),
                                 !.broken = BurnsOut(power, p1.maxPower)])
             Flowing(p1, current) == Lit(p1, current, AbsQ(MulQ(voltage, current)))
             \* lines 54-73
             Synced(p1) ==
                 IF p1.broken
                 THEN Done([p1 EXCEPT !.resistance = NearInfinite, !.current = Zero,
                                      !.power = Zero, !.brightness = SqrtOf(Zero)])
                 ELSE Flowing(p1, DivQ(voltage, p1.resistance))
         IN  Synced(IF FartherThan(p0.resistance, targetR, Q(1, 100))
                    THEN [p0 EXCEPT !.resistance = targetR,
                                    !.maxPower = MulQ(p0.powerRating, Q(3, 2))]
                    ELSE p0)

LampCheckErrors(comp) ==
    IF comp.properties.broken
    THEN <<Fault(comp.id, "broken", "error",
                 <<"Lamp burned out!", ToFixed(comp.properties.maxPower, 1)>>, TRUE)>>
    ELSE <<>>

\* ---- Battery -----------------------------------------------------------
Battery(cid, voltage, capacity, methods) ==
    Component(cid, "battery", <<"positive", "negative">>,
              [voltage |-> voltage, capacity |-> capacity, chargeRemaining |-> capacity,
               current |-> Zero, power |-> Zero, chargePercent |-> N(100),
               internalResistance |-> Q(1, 10), maxCurrent |-> N(5),
               maxPower |-> N(45)], methods)

\* A variant without the floor at zero; C10 tells the code from it.
DischargedUnclamped(chargeRemaining, chargeUsed) == SubQ(chargeRemaining, chargeUsed)

\* Line 49: the charge left after chargeUsed is drawn.
Discharged(chargeRemaining, chargeUsed) == MaxQ(Zero, SubQ(chargeRemaining, chargeUsed))

BatterySimulate(comp, deltaTime, nv) ==
    IF Len(comp.terminals) < 2 THEN comp
    ELSE LET vPos == NvGet(nv, comp.terminals[1].id)
             vNeg == NvGet(nv, comp.terminals[2].id)
             p0 == comp.properties
             \* lines 57-60
             Done(p2) == SetTerminals([comp EXCEPT !.properties = p2], vPos, vNeg,
                                      p2.current, NegQ(p2.current))
             \* lines 50-54
             Sagged(p1, remaining, percent) ==
                 Done([p1 EXCEPT !.chargeRemaining = remaining,
                                 !.chargePercent = percent,
                                 !.voltage = MulQ(p1.voltage,
                                                  MaxQ(Q(7, 10), DivQ(percent, N(100))))])
             Drained(p1, remaining) ==
                 Sagged(p1, remaining, MulQ(DivQ(remaining, p1.capacity), N(100)))
             \* lines 47-49
             Drawing(p1, current) ==
                 IF GtQ(current, Zero)
                 THEN Drained(p1, Discharged(p1.chargeRemaining,
                                  DivQ(MulQ(MulQ(current, deltaTime), N(1000)), N(3600))))
                 ELSE Done(p1)
             \* lines 43-44
             Loaded(current) ==
                 Drawing([p0 EXCEPT !.current = current,
                                    !.power = AbsQ(MulQ(SubQ(vPos, vNeg), current))],
                         current)
         IN  Loaded(DivQ(SubQ(p0.voltage, SubQ(vPos, vNeg)), p0.internalResistance))

BatteryCheckErrors(comp) ==
    LET p == comp.properties
        cur == AbsQ(OrElse(p.current, Zero))
    IN  (IF LtQ(OrElse(p.chargePercent, Zero), N(5))
         THEN <<Fault(comp.id, "depleted", "error",
                      <<"Battery depleted", ToFixed(p.chargePercent, 1)>>, TRUE)>>
         ELSE <<>>)
        \o (IF GtQ(cur, OrElse(p.maxCurrent, N(5)))
            THEN <<Fault(comp.id, "overcurrent", "critical",
                         <<"DANGER! Battery overcurrent", ToFixed(cur, 2)>>, TRUE)>>
            ELSE <<>>)

\* Battery.recharge()
BatteryRecharge(comp) ==
    [comp EXCEPT !.properties.chargeRemaining = comp.properties.capacity,
                 !.properties.chargePercent = N(100)]

\* ---- Ground ------------------------------------------------------------
Ground(cid, methods) ==
    Component(cid, "ground", <<"ground">>, [voltage |-> Zero], methods)

GroundSimulate(comp, deltaTime, nv) ==
    LET c1 == [comp EXCEPT !.properties.voltage = Zero]
    IN  IF Len(comp.terminals) > 0 THEN [c1 EXCEPT !.terminals[1].voltage = Zero] ELSE c1

GroundCheckErrors(comp) == <<>>

\* ---- Switch ------------------------------------------------------------
Switch(cid, closed, methods) ==
    Component(cid, "switch", <<"in", "out">>,
              [closed |-> closed, voltage |-> Zero, current |-> Zero,
               resistance |-> IF closed THEN NearZero ELSE NearInfinite,
               maxCurrent |-> N(10)], methods)

SwitchSimulate(comp, deltaTime, nv) ==
    IF Len(comp.terminals) < 2 THEN comp
    ELSE LET v1 == NvGet(nv, comp.terminals[1].id)
             v2 == NvGet(nv, comp.terminals[2].id)
             voltage == SubQ(v1, v2)
             resistance == IF comp.properties.closed THEN NearZero ELSE NearInfinite
             current == DivQ(voltage, resistance)
             c1 == [comp EXCEPT !.properties.voltage = voltage,
                                !.properties.resistance = resistance,
                                !.properties.current = current]
         IN  SetTerminals(c1, v1, v2, current, NegQ(current))

SwitchCheckErrors(comp) ==
    LET cur == AbsQ(OrElse(comp.properties.current, Zero))
    IN  IF GtQ(cur, OrElse(comp.properties.maxCurrent, N(10)))
        THEN <<Fault(comp.id, "overcurrent", "critical",
                     <<"Switch current", ToFixed(cur, 2), comp.properties.maxCurrent>>,
                     TRUE)>>
        ELSE <<>>

\* Switch.toggle()
SwitchToggle(comp) == [comp EXCEPT !.properties.closed = ~@]

\* ---- VoltageSource -----------------------------------------------------
VoltageSource(cid, voltage, methods) ==
    Component(cid, "voltage_source", <<"positive", "negative">>,
              [voltage |-> voltage, current |-> Zero, maxCurrent |-> N(1),
               waveform |-> [type |-> "dc", frequency |-> N(60), dutyCycle |-> Q(1, 2),
                             phase |-> Zero, offset |-> Zero],
               power |-> Zero, maxPower |-> Zero], methods)

\* x % 1 for a finite x >= 0
FractionalPart(x) == Q(x[1] % x[2], x[2])

\* The waveform generator's output (lines 38-72) for the DC waveform the
\* constructor sets and for the square waveform with phase 0.  now is
\* performance.now() / 1000, the wall clock in seconds (line 38).
WaveformOutput(props, now) ==
    LET voltage == OrElse(props.voltage, Zero)
        waveform == props.waveform
    IN  CASE waveform.type = "dc" -> voltage
          [] waveform.type = "square" /\ waveform.phase = Zero ->
                AddQ(IF LtQ(FractionalPart(MulQ(waveform.frequency, now)),
                            waveform.dutyCycle)
                     THEN voltage ELSE NegQ(voltage),
                     waveform.offset)

VoltageSourceSimulate(comp, deltaTime, nv, now) ==
    IF Len(comp.terminals) < 2 THEN comp
    ELSE LET outputVoltage == WaveformOutput(comp.properties, now)
             vPos == NvGet(nv, comp.terminals[1].id)
             vNeg == NvGet(nv, comp.terminals[2].id)
             current == MulQ(AbsQ(SubQ(vPos, vNeg)), Q(1, 10))
             p1 == [comp.properties EXCEPT
                       !.voltage = outputVoltage,
                       !.current = current,
                       !.maxPower = MulQ(AbsQ(outputVoltage),
                                         OrElse(comp.properties.maxCurrent, N(1))),
                       !.power = AbsQ(MulQ(outputVoltage, current))]
         IN  [comp EXCEPT !.properties = p1,
                          !.terminals[1].voltage = outputVoltage,
                          !.terminals[2].voltage = Zero]

VoltageSourceCheckErrors(comp) ==
    LET p == comp.properties
        cur == OrElse(p.current, Zero)
    IN  (IF GtQ(cur, OrElse(p.maxCurrent, N(1)))
         THEN <<Fault(comp.id, "overloaded", "error",
                      <<"Voltage source overloaded", ToFixed(p.current, 2),
                        ToFixed(p.maxCurrent, 2)>>, TRUE)>>
         ELSE <<>>)
        \o (IF GtQ(OrElse(p.power, Zero), OrElse(p.maxPower, N(5)))
            THEN <<Fault(comp.id, "overpower", "error",
                         <<"Voltage source overpower", ToFixed(p.power, 2),
                           ToFixed(p.maxPower, 2)>>, TRUE)>>
            ELSE <<>>)
        \o (IF GtQ(cur, N(10))
            THEN <<Fault(comp.id, "short", "critical",
                         <<"Short circuit detected on voltage source!">>, TRUE)>>
            ELSE <<>>)

\* ---- Capacitor ---------------------------------------------------------
Capacitor(cid, capacitance, methods) ==
    Component(cid, "capacitor", <<"positive", "negative">>,
              [capacitance |-> capacitance, voltage |-> Zero, current |-> Zero,
               charge |-> Zero, maxVoltage |-> N(50), power |-> Zero,
               energy |-> Zero], methods)

CapacitorSimulate(comp, deltaTime, nv) ==
    IF Len(comp.terminals) < 2 THEN comp
    ELSE LET vPos == NvGet(nv, comp.terminals[1].id)
             vNeg == NvGet(nv, comp.terminals[2].id)
             previousVoltage == OrElse(comp.properties.voltage, Zero)
             voltage == SubQ(vPos, vNeg)
             dV == SubQ(voltage, previousVoltage)
             capacitance == OrElse(comp.properties.capacitance, Q(1, 10000))
             current == MulQ(capacitance, DivQ(dV, MaxQ(deltaTime, Q(1, 1000))))
             c1 == [comp EXCEPT
                      !.properties.voltage = voltage,
                      !.properties.current = current,
                      !.properties.charge = MulQ(capacitance, voltage),
                      !.properties.energy =
                          MulQ(MulQ(Q(1, 2), capacitance), MulQ(voltage, voltage)),
                      !.properties.power = MulQ(voltage, current)]
         IN  SetTerminals(c1, vPos, vNeg, current, NegQ(current))

CapacitorCheckErrors(comp) ==
    LET p == comp.properties
        voltage == OrElse(p.voltage, Zero)
        maxVoltage == OrElse(p.maxVoltage, N(50))
    IN  (IF GtQ(AbsQ(voltage), maxVoltage)
         THEN <<Fault(comp.id, "overvoltage", "error",
                      <<"Capacitor overvoltage", ToFixed(AbsQ(voltage), 1), maxVoltage>>,
                      TRUE)>>
         ELSE <<>>)
        \o (IF LtQ(voltage, N(-1))
            THEN <<Fault(comp.id, "reverse", "warning",
                         <<"Capacitor reverse polarity", ToFixed(p.voltage, 1)>>, FALSE)>>
            ELSE <<>>)

\* ---- Inductor ----------------------------------------------------------
Inductor(cid, inductance, methods) ==
    Component(cid, "inductor", <<"terminal1", "terminal2">>,
              [inductance |-> inductance, voltage |-> Zero, current |-> Zero,
               maxCurrent |-> N(10), power |-> Zero, energy |-> Zero,
               flux |-> Zero], methods)

InductorSimulate(comp, deltaTime, nv) ==
    IF Len(comp.terminals) < 2 THEN comp
    ELSE LET p == comp.properties
             v1 == NvGet(nv, comp.terminals[1].id)
             v2 == NvGet(nv, comp.terminals[2].id)
             voltage == SubQ(v1, v2)
             inductance == OrElse(p.inductance, Q(1, 1000))
             dI == DivQ(MulQ(voltage, MaxQ(deltaTime, Q(1, 1000))), inductance)
             current == MaxQ(NegQ(p.maxCurrent),
                             MinQ(p.maxCurrent, AddQ(OrElse(p.current, Zero), dI)))
             c1 == [comp EXCEPT
                      !.properties.voltage = voltage,
                      !.properties.current = current,
                      !.properties.energy =
                          MulQ(MulQ(Q(1, 2), inductance), MulQ(current, current)),
                      !.properties.flux = MulQ(inductance, current),
                      !.properties.power = MulQ(voltage, current)]
         IN  SetTerminals(c1, v1, v2, current, NegQ(current))

InductorCheckErrors(comp) ==
    LET p == comp.properties
        cur == AbsQ(OrElse(p.current, Zero))
        maxCurrent == OrElse(p.maxCurrent, N(10))
    IN  (IF GtQ(cur, maxCurrent)
         THEN <<Fault(comp.id, "saturation", "error",
                      <<"Inductor core saturation", ToFixed(cur, 2), maxCurrent>>, TRUE)>>
         ELSE <<>>)
        \o (IF GtQ(OrElse(p.power, Zero), N(10))
            THEN <<Fault(comp.id, "overpower", "warning",
                         <<"Inductor high power dissipation", ToFixed(p.power, 2)>>,
                         FALSE)>>
            ELSE <<>>)

\* ---- Diode -------------------------------------------------------------
Diode(cid, forwardVoltage, methods) ==
    Component(cid, "diode", <<"anode", "cathode">>,
              [forwardVoltage |-> forwardVoltage, reverseBreakdown |-> N(50),
               maxCurrent |-> N(1), voltage |-> Zero, current |-> Zero,
               power |-> Zero, conducting |-> FALSE], methods)

DiodeSimulate(comp, deltaTime, nv) ==
    IF Len(comp.terminals) < 2 THEN comp
    ELSE LET p == comp.properties
             vAnode == NvGet(nv, comp.terminals[1].id)
             vCathode == NvGet(nv, comp.terminals[2].id)
             voltage == SubQ(vAnode, vCathode)
             forwardVoltage == OrElse(p.forwardVoltage, Q(7, 10))
             reverseBreakdown == OrElse(p.reverseBreakdown, N(50))
             forward == GtQ(voltage, forwardVoltage)
             breakdown == ~forward /\ LtQ(voltage, NegQ(reverseBreakdown))
             current ==
                 IF forward
                 THEN MinQ(MulQ(SubQ(voltage, forwardVoltage), N(10)),
                           OrElse(p.maxCurrent, N(1)))
                 ELSE IF breakdown
                 THEN MulQ(NegQ(SubQ(AbsQ(voltage), reverseBreakdown)), Q(1, 10))
                 ELSE Zero
             c1 == [comp EXCEPT
                      !.properties.voltage = voltage,
                      !.properties.conducting = forward \/ breakdown,
                      !.properties.current = current,
                      !.properties.power = AbsQ(MulQ(voltage, current))]
         IN  SetTerminals(c1, vAnode, vCathode, current, NegQ(current))

DiodeCheckErrors(comp) ==
    LET p == comp.properties
        cur == AbsQ(OrElse(p.current, Zero))
        maxCurrent == OrElse(p.maxCurrent, N(1))
        voltage == OrElse(p.voltage, Zero)
    IN  (IF GtQ(cur, maxCurrent)
         THEN <<Fault(comp.id, "overcurrent", "error",
                      <<"Diode overcurrent", ToFixed(cur, 2), maxCurrent>>, TRUE)>>
         ELSE <<>>)
        \o (IF LtQ(voltage, NegQ(OrElse(p.reverseBreakdown, N(50))))
            THEN <<Fault(comp.id, "breakdown", "warning",
                         <<"Diode reverse breakdown", ToFixed(AbsQ(voltage), 1)>>, FALSE)>>
            ELSE <<>>)
        \o (IF GtQ(OrElse(p.power, Zero), N(1))
            THEN <<Fault(comp.id, "overpower", "warning",
                         <<"Diode power dissipation", ToFixed(p.power, 2)>>, FALSE)>>
            ELSE <<>>)

\* ---- LED ---------------------------------------------------------------
LED(cid, color, forwardVoltage, methods) ==
    Component(cid, "led", <<"anode", "cathode">>,
              [color |-> color, forwardVoltage |-> forwardVoltage,
               maxCurrent |-> Q(1, 50), voltage |-> Zero, current |-> Zero,
               brightness |-> Zero, power |-> Zero], methods)

\* A variant without the cap at maxCurrent; C29 tells the code from it.
LEDCurrentUncapped(excessVoltage, maxCurrent) == MulQ(excessVoltage, Q(1, 100))

\* Line 268: the current of a conducting LED.
LEDCurrent(excessVoltage, maxCurrent) ==
    MinQ(MulQ(excessVoltage, Q(1, 100)), OrElse(maxCurrent, Q(1, 50)))

LEDSimulate(comp, deltaTime, nv) ==
    IF Len(comp.terminals) < 2 THEN comp
    ELSE LET p == comp.properties
             vAnode == NvGet(nv, comp.terminals[1].id)
             vCathode == NvGet(nv, comp.terminals[2].id)
             voltage == SubQ(vAnode, vCathode)
             forwardVoltage == OrElse(p.forwardVoltage, N(2))
             conducts == GtQ(voltage, forwardVoltage)
             current == IF conducts
                        THEN LEDCurrent(SubQ(voltage, forwardVoltage), p.maxCurrent)
                        ELSE Zero
             brightness == IF conducts
                           THEN MinQ(DivQ(current, OrElse(p.maxCurrent, Q(1, 50))), N(1))
                           ELSE Zero
             c1 == [comp EXCEPT
                      !.properties.voltage = voltage,
                      !.properties.current = current,
                      !.properties.brightness = brightness,
                      !.properties.power = MulQ(voltage, current)]
         IN  SetTerminals(c1, vAnode, vCathode, current, NegQ(current))

\* current ?? 0 and the like keep 0 and NaN: the properties are never null.
LEDCheckErrors(comp) ==
    LET p == comp.properties
    IN  (IF GtQ(p.current, p.maxCurrent)
         THEN <<Fault(comp.id, "overcurrent", "error",
                      <<"LED overcurrent", ToFixed(MulQ(p.current, N(1000)), 1),
                        ToFixed(MulQ(p.maxCurrent, N(1000)), 1)>>, TRUE)>>
         ELSE <<>>)
        \o (IF LtQ(p.voltage, N(-5))
            THEN <<Fault(comp.id, "reverse", "warning",
                         <<"LED reverse voltage", ToFixed(p.voltage, 1)>>, FALSE)>>
            ELSE <<>>)

\* ---- Potentiometer -----------------------------------------------------
Potentiometer(cid, maxResistance, position_percent, methods) ==
    Component(cid, "potentiometer", <<"terminal1", "terminal2">>,
              [maxResistance |-> maxResistance, position |-> position_percent,
               value |-> DivQ(MulQ(maxResistance, position_percent), N(100)),
               voltage |-> Zero, current |-> Zero, power |-> Zero,
               temperature |-> N(25), maxPower |-> Q(1, 2)], methods)

\* Lines 44-47: the resistance at the wiper position, kept away from zero.
WiperResistance(maxResistance, position) ==
    MaxQ(DivQ(MulQ(maxResistance, position), N(100)), NearZero)

PotentiometerSimulate(comp, deltaTime, nv) ==
    IF Len(comp.terminals) < 2 THEN comp
    ELSE LET p == comp.properties
             v1 == NvGet(nv, comp.terminals[1].id)
             v2 == NvGet(nv, comp.terminals[2].id)
             voltage == SubQ(v1, v2)
             value == DivQ(MulQ(p.maxResistance, p.position), N(100))
             current == DivQ(voltage, WiperResistance(p.maxResistance, p.position))
             power == AbsQ(MulQ(voltage, current))
             currentTemp == OrElse(p.temperature, N(25))
             targetTemp == AddQ(N(25), MulQ(OrElse(power, Zero), N(50)))
             c1 == [comp EXCEPT
                      !.properties.voltage = voltage,
                      !.properties.value = value,
                      !.properties.current = current,
                      !.properties.power = power,
                      !.properties.temperature =
                          AddQ(currentTemp,
                               MulQ(MulQ(SubQ(targetTemp, currentTemp), deltaTime), N(2)))]
         IN  SetTerminals(c1, v1, v2, current, NegQ(current))

PotentiometerCheckErrors(comp) ==
    LET p == comp.properties
        maxPower == OrElse(p.maxPower, Q(1, 2))
        power == OrElse(p.power, Zero)
    IN  IF GtQ(power, MulQ(maxPower, N(10)))
        THEN <<Fault(comp.id, "critical-overpower", "critical",
                     <<"DANGER! Potentiometer power", ToFixed(p.power, 2)>>, TRUE)>>
        ELSE IF GtQ(power, maxPower)
        THEN <<Fault(comp.id, "overpower", "warning",
                     <<"Potentiometer power", ToFixed(p.power, 2), maxPower>>, FALSE)>>
        ELSE <<>>

\* Potentiometer.setPosition(percent) (lines 195-197)
PotentiometerSetPosition(comp, percent) ==
    [comp EXCEPT !.properties.position = MaxQ(Zero, MinQ(N(100), percent))]

\* ---- dispatch on the component's class ---------------------------------
Simulate(comp, deltaTime, nv, now) ==
    CASE comp.type = "resistor" -> ResistorSimulate(comp, deltaTime, nv)
      [] comp.type = "fuse" -> FuseSimulate(comp, deltaTime, nv)
      [] comp.type = "lamp" -> LampSimulate(comp, deltaTime, nv)
      [] comp.type = "battery" -> BatterySimulate(comp, deltaTime, nv)
      [] comp.type = "ground" -> GroundSimulate(comp, deltaTime, nv)
      [] comp.type = "switch" -> SwitchSimulate(comp, deltaTime, nv)
      [] comp.type = "voltage_source" -> VoltageSourceSimulate(comp, deltaTime, nv, now)
      [] comp.type = "capacitor" -> CapacitorSimulate(comp, deltaTime, nv)
      [] comp.type = "inductor" -> InductorSimulate(comp, deltaTime, nv)
      [] comp.type = "diode" -> DiodeSimulate(comp, deltaTime, nv)
      [] comp.type = "led" -> LEDSimulate(comp, deltaTime, nv)
      [] comp.type = "potentiometer" -> PotentiometerSimulate(comp, deltaTime, nv)

CheckErrors(comp) ==
    CASE comp.type = "resistor" -> ResistorCheckErrors(comp)
      [] comp.type = "fuse" -> FuseCheckErrors(comp)
      [] comp.type = "lamp" -> LampCheckErrors(comp)
      [] comp.type = "battery" -> BatteryCheckErrors(comp)
      [] comp.type = "ground" -> GroundCheckErrors(comp)
      [] comp.type = "switch" -> SwitchCheckErrors(comp)
      [] comp.type = "voltage_source" -> VoltageSourceCheckErrors(comp)
      [] comp.type = "capacitor" -> CapacitorCheckErrors(comp)
      [] comp.type = "inductor" -> InductorCheckErrors(comp)
      [] comp.type = "diode" -> DiodeCheckErrors(comp)
      [] comp.type = "led" -> LEDCheckErrors(comp)
      [] comp.type = "potentiometer" -> PotentiometerCheckErrors(comp)

\* ------------------------------------------------------------------------
\* Bounds of the model
\* ------------------------------------------------------------------------
\* stepSimulation calls explored in one behaviour
MaxTicks == 3

\* addError is not called on a fault list of this length or longer
MaxErrors == 2
MaxCalls == 6
MaxSustained == 16
MaxDrains == 3
\* wires in a circuit
MaxWires == 2
\* components addComponent puts into the store
MaxComponents == 2
\* uuidv4() values drawn while editing
MaxDraws == 8
\* calls on a component driven directly, one of each kind
MaxDriven == 2

\* The frame times handed to stepSimulation (seconds).
DeltaTimes == {Q(1, 60), Q(1, 10)}

\* Readings of the wall clock, performance.now() / 1000 (seconds).
Clock == {Zero, Q(1, 120)}

\* Values uuidv4() may return.
UuidValues == {1, 2}

\* ------------------------------------------------------------------------
\* The factory (ComponentFactory.ts)
\* ------------------------------------------------------------------------
\* The ComponentType enumeration (types, lines 407-447).
ComponentType ==
    {"resistor", "capacitor", "inductor", "diode", "zener_diode", "led", "fuse",
     "voltage_source", "current_source", "battery", "ground",
     "mosfet", "bjt", "jfet", "thyristor", "transistor", "optocoupler",
     "logic_gate_and", "logic_gate_or", "logic_gate_not", "logic_gate_nand",
     "logic_gate_xor", "op_amp",
     "switch", "potentiometer", "varistor", "mcb", "relay",
     "lamp", "dc_motor"}

\* What createComponent returns for a kind without a case.
null == [id |-> <<"null", 0>>, type |-> "null", terminals |-> <<>>,
         properties |-> <<>>, methods |-> FALSE, selected |-> FALSE, error |-> FALSE]

\* A variant whose default case builds a resistor; C17 tells the code from
\* it.
createComponentOrResistor(id, type) ==
    CASE type = "capacitor" -> Capacitor(id, Q(1, 10000), TRUE)
      [] type = "ground" -> Ground(id, TRUE)
      [] OTHER -> Resistor(id, N(1000), TRUE)

\* ComponentFactory.createComponent (lines 26-80); the position is not
\* modelled.
createComponent(id, type) ==
    CASE type = "resistor" -> Resistor(id, N(1000), TRUE)
      [] type = "capacitor" -> Capacitor(id, Q(1, 10000), TRUE)
      [] type = "inductor" -> Inductor(id, Q(1, 1000), TRUE)
      [] type = "diode" -> Diode(id, Q(7, 10), TRUE)
      [] type = "led" -> LED(id, "#ff0000", N(2), TRUE)
      [] type = "fuse" -> Fuse(id, N(1), TRUE)
      [] type = "voltage_source" -> VoltageSource(id, N(5), TRUE)
      [] type = "battery" -> Battery(id, N(9), N(500), TRUE)
      [] type = "ground" -> Ground(id, TRUE)
      [] type = "switch" -> Switch(id, FALSE, TRUE)
      [] type = "potentiometer" -> Potentiometer(id, N(10000), N(50), TRUE)
      [] type = "lamp" -> Lamp(id, N(12), N(60), TRUE)
      [] OTHER -> null

\* ------------------------------------------------------------------------
\* The circuit store (circuitStore.ts)
\* ------------------------------------------------------------------------
VARIABLES
    components,   \* state.components
    wires,        \* state.wires
    simulation,   \* state.simulation: running, time, speed, errors
    uuid,         \* number of uuidv4() values drawn so far
    ticks,        \* number of ticks and direct calls so far
    lastOp,       \* history: the store action or component method called last
    lastTick,     \* history: what the last stepSimulation call did
    solver,       \* the CircuitSolver object on which solve() was called last
    selectedComponentIds,   \* state.selectedComponentIds
    lastAdd       \* history: the kind last requested of addComponent

vars == <<components, wires, simulation, uuid, ticks, lastOp, lastTick, solver, selectedComponentIds, lastAdd>>

Wire(wid, from, to) ==
    [id |-> wid, fromTerminal |-> from, toTerminal |-> to, current |-> Zero, voltage |-> Zero]

NoTick ==
    [ran |-> FALSE, solved |-> FALSE, threw |-> FALSE, singular |-> FALSE,
     deltaTime |-> Zero, nodeVoltages |-> <<>>,
     simulated |-> <<>>, reported |-> <<>>]

\* No addComponent call yet.
NoAdd == [type |-> "", created |-> FALSE]

\* No CircuitSolver object yet.
NoSolver ==
    [ran |-> FALSE, threw |-> FALSE, nodes |-> <<>>, nodeIds |-> <<>>,
     terminalToNode |-> <<>>, nodeIndex |-> <<>>, size |-> 0, result |-> <<>>]

InitialSimulation ==
    [running |-> FALSE, time |-> Zero, timeStep |-> Q(1, 1000), speed |-> N(1),
     errors |-> <<>>]

\* startSimulation (lines 200-206)
startSimulation ==
    /\ simulation' = [simulation EXCEPT !.running = TRUE, !.time = Zero, !.errors = <<>>]
    /\ lastOp' = "startSimulation"
    /\ UNCHANGED <<components, wires, uuid, ticks, lastTick, solver, selectedComponentIds, lastAdd>>

\* stopSimulation (lines 208-212)
stopSimulation ==
    /\ simulation' = [simulation EXCEPT !.running = FALSE]
    /\ lastOp' = "stopSimulation"
    /\ UNCHANGED <<components, wires, uuid, ticks, lastTick, solver, selectedComponentIds, lastAdd>>

\* Lines 231-238: the solved drop and current written into a component.
ApplySolved(comp, result) ==
    LET voltage == result.componentVoltages[comp.id]
        c1 == [comp EXCEPT !.properties.voltage = voltage]
    IN  IF comp.id \in DOMAIN result.componentCurrents
        THEN LET current == result.componentCurrents[comp.id]
             IN  [comp EXCEPT !.properties =
                     [f \in DOMAIN comp.properties \cup {"voltage", "current", "power"} |->
                        CASE f = "voltage" -> voltage
                          [] f = "current" -> current
                          [] f = "power" -> AbsQ(MulQ(voltage, current))
                          [] OTHER -> comp.properties[f]]]
        ELSE c1

\* A variant that also turns the wire round; C16 tells the code from it.
ApplySolvedWireTurned(wire, result) ==
    [wire EXCEPT !.fromTerminal = wire.toTerminal, !.toTerminal = wire.fromTerminal]

\* Lines 251-257
ApplySolvedWire(wire, result) ==
    IF wire.id \in DOMAIN result.wireCurrents
    THEN [wire EXCEPT !.current = result.wireCurrents[wire.id],
                      !.voltage = result.wireVoltages[wire.id]]
    ELSE wire

\* A variant that compares identities only; C6 tells the code from it.
FaultExistsById(errors, error) ==
    \E k \in 1..Len(errors) : errors[k].id = error.id

\* Line 277: is the fault already in the list, by message or by id?
FaultExists(errors, error) ==
    \E k \in 1..Len(errors) :
        errors[k].message = error.message \/ errors[k].id = error.id

\* Lines 275-289 for the faults one checkErrors call returned.
RECURSIVE MergeFaults(_, _, _)
MergeFaults(errors, found, k) ==
    IF k > Len(found) THEN errors
    ELSE MergeFaults(IF FaultExists(errors, found[k]) THEN errors
                     ELSE Append(errors, found[k]),
                     found, k + 1)

HasStop(found) == \E k \in 1..Len(found) : found[k].stopSimulation

\* A variant of the forEach that leaves the loop at the first stopping fault;
\* C1 tells the code from it.
RECURSIVE ProcessComponentsUntilHalt(_, _, _, _, _)
ProcessComponentsUntilHalt(acc, k, dt, nv, now) ==
    IF k > Len(acc.comps) \/ acc.hasStoppingError THEN acc
    ELSE LET comp == acc.comps[k]
             \* lines 273-289, with the faults checkErrors returned
             Checked(c1, found) ==
                 ProcessComponentsUntilHalt(
                    [comps |-> [acc.comps EXCEPT ![k] = c1],
                     errors |-> MergeFaults(acc.errors, found, 1),
                     hasStoppingError |-> acc.hasStoppingError \/ HasStop(found),
                     simulated |-> IF comp.methods THEN Append(acc.simulated, comp.id)
                                   ELSE acc.simulated,
                     reported |-> acc.reported \o found],
                    k + 1, dt, nv, now)
             \* lines 268-270, with the component simulate left
             Simulated(c1) == Checked(c1, IF comp.methods THEN CheckErrors(c1) ELSE <<>>)
         IN  Simulated(IF comp.methods THEN Simulate(comp, dt, nv, now) ELSE comp)

\* Lines 260-291: the forEach over the components, from the k-th on.  acc
\* carries the components, the fault list, hasStoppingError and the history
\* of simulate calls and reported faults.
RECURSIVE ProcessComponents(_, _, _, _, _)
ProcessComponents(acc, k, dt, nv, now) ==
    IF k > Len(acc.comps) THEN acc
    ELSE LET comp == acc.comps[k]
             \* lines 273-289, with the faults checkErrors returned
             Checked(c1, found) ==
                 ProcessComponents(
                    [comps |-> [acc.comps EXCEPT ![k] = c1],
                     errors |-> MergeFaults(acc.errors, found, 1),
                     hasStoppingError |-> acc.hasStoppingError \/ HasStop(found),
                     simulated |-> IF comp.methods THEN Append(acc.simulated, comp.id)
                                   ELSE acc.simulated,
                     reported |-> acc.reported \o found],
                    k + 1, dt, nv, now)
             \* lines 268-270, with the component simulate left
             Simulated(c1) == Checked(c1, IF comp.methods THEN CheckErrors(c1) ELSE <<>>)
         IN  Simulated(IF comp.methods THEN Simulate(comp, dt, nv, now) ELSE comp)

\* Lines 299-304: the fault list a tick without a stopping fault leaves.
RetainedFaults(errors) == SelectSeq(errors, LAMBDA e : e.stopSimulation)

\* Line 309: is the synthetic fault added (and the run stopped)?
AddsSyntheticFault(errors) == Len(errors) = 0

SyntheticFault(n, message) ==
    [id |-> <<"uuid", "solver", n>>, severity |-> "error",
     message |-> <<"Simulation failed: ", message>>,
     componentIds |-> <<>>, stopSimulation |-> TRUE]

\* A variant without the test of line 216: the clock advances whether or not
\* the simulation is running; C28 tells the code from it.
TickUnguarded(comps, ws, sim, deltaTime, now, id) ==
    [components |-> comps, wires |-> ws,
     simulation |-> [sim EXCEPT !.time = AddQ(@, MulQ(deltaTime, sim.speed))],
     lastTick |-> NoTick, drawn |-> 0]

\* What one stepSimulation call (lines 214-323) makes of the store, given the
\* wall-clock reading now and the value id that uuidv4() returns if called:
\* the lists and the simulation state it leaves, the record of the tick, and
\* the number of uuidv4() values drawn.
Tick(comps, ws, sim, deltaTime, now, id) ==
    IF ~sim.running
    THEN [components |-> comps, wires |-> ws, simulation |-> sim,
          lastTick |-> NoTick, drawn |-> 0]
    ELSE LET dt == MulQ(deltaTime, sim.speed)
             time == AddQ(sim.time, dt)
             \* lines 293-304, after the forEach
             Processed(result, done) ==
                 [components |-> done.comps,
                  wires |-> [k \in 1..Len(ws) |-> ApplySolvedWire(ws[k], result)],
                  simulation |->
                      [sim EXCEPT
                         !.time = time,
                         !.running = IF done.hasStoppingError THEN FALSE ELSE @,
                         !.errors = IF ~done.hasStoppingError /\ Len(done.errors) > 0
                                    THEN RetainedFaults(done.errors)
                                    ELSE done.errors],
                  lastTick |-> [ran |-> TRUE, solved |-> TRUE, threw |-> FALSE,
                                singular |-> SingularSystem(comps, ws),
                                deltaTime |-> dt,
                                nodeVoltages |-> result.nodeVoltages,
                                simulated |-> done.simulated,
                                reported |-> done.reported],
                  drawn |-> 0]
             \* lines 229-291, with the solver's result
             Solved(result) ==
                 Processed(result,
                     ProcessComponents(
                        [comps |-> [k \in 1..Len(comps) |-> ApplySolved(comps[k], result)],
                         errors |-> sim.errors,
                         hasStoppingError |-> FALSE, simulated |-> <<>>,
                         reported |-> <<>>],
                        1, dt, result.nodeVoltages, now))
         IN  IF SolveThrows(comps)
             THEN \* catch (lines 306-320)
                  [components |-> comps, wires |-> ws,
                   simulation |->
                       IF AddsSyntheticFault(sim.errors)
                       THEN [sim EXCEPT
                               !.time = time,
                               !.errors = Append(@, SyntheticFault(id,
                                                    "Cannot read properties of undefined")),
                               !.running = FALSE]
                       ELSE [sim EXCEPT !.time = time],
                   lastTick |-> [NoTick EXCEPT !.ran = TRUE, !.threw = TRUE,
                                               !.deltaTime = dt],
                   drawn |-> IF AddsSyntheticFault(sim.errors) THEN 1 ELSE 0]
             ELSE Solved(Solve(comps, ws))

\* stepSimulation (lines 214-323)
stepSimulation(deltaTime) ==
    /\ ticks < MaxTicks
    /\ ticks' = ticks + 1
    /\ lastOp' = "stepSimulation"
    /\ \E now \in Clock, id \in UuidValues :
          LET Ticked(t) ==
                  /\ components' = t.components
                  /\ wires' = t.wires
                  /\ simulation' = t.simulation
                  /\ lastTick' = t.lastTick
                  /\ uuid' = uuid + t.drawn
                  /\ UNCHANGED <<solver, selectedComponentIds, lastAdd>>
          IN  Ticked(Tick(components, wires, simulation, deltaTime, now, id))

\* updateComponent(id, { properties: { ...properties, [key]: value } }):
\* the store action (lines 113-120) as the properties panel calls it
\* (SimulationControls.tsx 133-140), on the k-th component.
updateProperty(limit, k, key, value) ==
    /\ ticks < limit
    /\ key \in DOMAIN components[k].properties
    /\ components' = [components EXCEPT ![k].properties[key] = value]
    /\ ticks' = ticks + 1
    /\ lastOp' = "updateComponent"
    /\ lastTick' = NoTick
    /\ UNCHANGED <<wires, simulation, uuid, solver, selectedComponentIds, lastAdd>>

\* addError (lines 325-343)
addError(error) ==
    /\ Len(simulation.errors) < MaxErrors
    /\ simulation' = [simulation EXCEPT
                         !.errors = Append(@, error),
                         !.running = IF error.stopSimulation THEN FALSE ELSE @]
    /\ components' = [k \in 1..Len(components) |->
                         IF components[k].id \in SeqToSet(error.componentIds)
                         THEN [components[k] EXCEPT !.error = TRUE]
                         ELSE components[k]]
    /\ lastOp' = "addError"
    /\ UNCHANGED <<wires, uuid, ticks, lastTick, solver, selectedComponentIds, lastAdd>>

\* clearErrors (lines 345-353)
clearErrors ==
    /\ simulation' = [simulation EXCEPT !.errors = <<>>]
    /\ components' = [k \in 1..Len(components) |-> [components[k] EXCEPT !.error = FALSE]]
    /\ lastOp' = "clearErrors"
    /\ UNCHANGED <<wires, uuid, ticks, lastTick, solver, selectedComponentIds, lastAdd>>

\* ------------------------------------------------------------------------
\* Editing the circuit (circuitStore.ts 40-198)
\* ------------------------------------------------------------------------
\* The n-th value uuidv4() returns; the values are pairwise different.
Uuid(n) == <<"uuid", n>>

\* Lines 54-78: the plain object stored for the factory's instance, with the
\* store's id and the terminal ids rebuilt from it.
StoredComponent(tempInstance, id, type) ==
    [id |-> id, type |-> type,
     terminals |-> [k \in 1..Len(tempInstance.terminals) |->
                      [tempInstance.terminals[k] EXCEPT
                          !.componentId = id,
                          !.id = <<id, tempInstance.terminals[k].name>>]],
     properties |-> tempInstance.properties,
     methods |-> FALSE, selected |-> TRUE, error |-> FALSE]

\* A variant without the loop of lines 86-88: the components already in the
\* store keep their selected flag; C30 tells the code from it.
addComponentKeepingFlags(type) ==
    /\ uuid < MaxDraws
    /\ lastOp' = "addComponent"
    /\ LET Stored(tempInstance, id) ==
               IF tempInstance.type = "null"
               THEN /\ uuid' = uuid + 1
                    /\ lastAdd' = [type |-> type, created |-> FALSE]
                    /\ UNCHANGED <<components, selectedComponentIds>>
               ELSE /\ Len(components) < MaxComponents
                    /\ uuid' = uuid + 2 + 2 * Len(tempInstance.terminals)
                    /\ lastAdd' = [type |-> type, created |-> TRUE]
                    /\ components' = Append(components, StoredComponent(tempInstance, id, type))
                    /\ selectedComponentIds' = <<id>>
       IN  Stored(createComponent(Uuid(uuid + 1), type), Uuid(uuid + 2))
    /\ UNCHANGED <<wires, simulation, ticks, lastTick, solver>>

\* addComponent (lines 40-90).  uuidv4() is called once for the temporary
\* instance and, when the factory built one, once for the store's id and
\* twice per terminal.
addComponent(type) ==
    /\ uuid < MaxDraws
    /\ lastOp' = "addComponent"
    /\ LET Stored(tempInstance, id) ==
               IF tempInstance.type = "null"
               THEN /\ uuid' = uuid + 1
                    /\ lastAdd' = [type |-> type, created |-> FALSE]
                    /\ UNCHANGED <<components, selectedComponentIds>>
               ELSE /\ Len(components) < MaxComponents
                    /\ uuid' = uuid + 2 + 2 * Len(tempInstance.terminals)
                    /\ lastAdd' = [type |-> type, created |-> TRUE]
                    /\ components' =
                          [k \in 1..(Len(components) + 1) |->
                              IF k <= Len(components)
                              THEN [components[k] EXCEPT !.selected = FALSE]
                              ELSE StoredComponent(tempInstance, id, type)]
                    /\ selectedComponentIds' = <<id>>
       IN  Stored(createComponent(Uuid(uuid + 1), type), Uuid(uuid + 2))
    /\ UNCHANGED <<wires, simulation, ticks, lastTick, solver>>

\* components.flatMap(c => c.terminals)
AllTerminals(comps) == FlattenSeq([i \in 1..Len(comps) |-> comps[i].terminals])

\* Lines 99-105: is the wire connected to component id, by the terminals
\* found among the components that remain?  A terminal that is not found
\* has no componentId to compare.
ConnectedTo(remaining, wire, id) ==
    LET terminals == AllTerminals(remaining)
        \* the componentId of the first terminal with this id, if there is one
        Owner(tid) ==
            LET found == {j \in 1..Len(terminals) : terminals[j].id = tid}
            IN  {terminals[j].componentId : j \in {j \in found : \A i \in found : j <= i}}
    IN  id \in Owner(wire.fromTerminal) \/ id \in Owner(wire.toTerminal)

\* removeComponent (lines 92-111)
removeComponent(id) ==
    /\ LET Removed(remaining) ==
               /\ components' = remaining
               /\ wires' = SelectSeq(wires, LAMBDA w : ~ConnectedTo(remaining, w, id))
       IN  Removed(SelectSeq(components, LAMBDA c : c.id # id))
    /\ selectedComponentIds' = SelectSeq(selectedComponentIds, LAMBDA cid : cid # id)
    /\ lastOp' = "removeComponent"
    /\ UNCHANGED <<simulation, uuid, ticks, lastTick, solver, lastAdd>>

\* removeWire (lines 194-198)
removeWire(id) ==
    /\ wires' = SelectSeq(wires, LAMBDA w : w.id # id)
    /\ lastOp' = "removeWire"
    /\ UNCHANGED <<components, simulation, uuid, ticks, lastTick, solver, selectedComponentIds, lastAdd>>

\* selectComponent (lines 122-139)
selectComponent(id, multiSelect) ==
    /\ LET Selected(ids) ==
               /\ selectedComponentIds' = ids
               /\ components' = [k \in 1..Len(components) |->
                                    [components[k] EXCEPT
                                        !.selected = components[k].id \in SeqToSet(ids)]]
       IN  Selected(IF multiSelect
                    THEN IF id \in SeqToSet(selectedComponentIds)
                         THEN SelectSeq(selectedComponentIds, LAMBDA cid : cid # id)
                         ELSE Append(selectedComponentIds, id)
                    ELSE <<id>>)
    /\ lastOp' = "selectComponent"
    /\ UNCHANGED <<wires, simulation, uuid, ticks, lastTick, solver, lastAdd>>

\* deselectAll (lines 141-148)
deselectAll ==
    /\ selectedComponentIds' = <<>>
    /\ components' = [k \in 1..Len(components) |-> [components[k] EXCEPT !.selected = FALSE]]
    /\ lastOp' = "deselectAll"
    /\ UNCHANGED <<wires, simulation, uuid, ticks, lastTick, solver, lastAdd>>

\* addWire (lines 165-192); the wire-drawing state is not modelled.
addWire(fromTerminalId, toTerminalId) ==
    /\ uuid < MaxDraws
    /\ lastOp' = "addWire"
    /\ IF fromTerminalId \in SeqToSet(TerminalIds(components))
          /\ toTerminalId \in SeqToSet(TerminalIds(components))
       THEN /\ Len(wires) < MaxWires
            /\ wires' = Append(wires, Wire(Uuid(uuid + 1), fromTerminalId, toTerminalId))
            /\ uuid' = uuid + 1
       ELSE UNCHANGED <<wires, uuid>>
    /\ UNCHANGED <<components, simulation, ticks, lastTick, solver, selectedComponentIds, lastAdd>>

\* ------------------------------------------------------------------------
\* The solver called on the store's lists, outside a store tick
\* ------------------------------------------------------------------------
\* new CircuitSolver(components, wires).solve() (CircuitSolver.ts 20-29): the
\* object's maps after identifyNodes, the matrix size of line 131, and the
\* SimulationResult unless solveMNA throws.
solve ==
    /\ ~solver.ran
    /\ solver' = [ran |-> TRUE,
                  threw |-> SolveThrows(components),
                  nodes |-> NodeMembers(components, wires),
                  nodeIds |-> NodeIds(components, wires),
                  terminalToNode |-> TerminalToNode(components, wires),
                  nodeIndex |-> NodeIndex(components, wires),
                  size |-> MatrixSize(components, NodeIndex(components, wires)),
                  result |-> IF SolveThrows(components) THEN <<>>
                             ELSE Solve(components, wires)]
    /\ lastOp' = "solve"
    /\ UNCHANGED <<components, wires, simulation, uuid, ticks, lastTick, selectedComponentIds, lastAdd>>

\* ------------------------------------------------------------------------
\* Methods called on one component instance, outside a store tick
\* ------------------------------------------------------------------------
\* The nodeVoltages map that puts v1 and v2 on the two terminals of comp.
Across(comp, v1, v2) ==
    [tid \in {comp.terminals[j].id : j \in 1..Len(comp.terminals)} |->
        IF tid = comp.terminals[1].id THEN v1 ELSE v2]

\* component.simulate(deltaTime, nodeVoltages) on the k-th component
simulateWithin(limit, k, deltaTime, nodeVoltages) ==
    /\ ticks < limit
    /\ components[k].methods
    /\ \E now \in Clock :
          components' = [components EXCEPT ![k] = Simulate(@, deltaTime, nodeVoltages, now)]
    /\ ticks' = ticks + 1
    /\ lastOp' = "simulate"
    /\ lastTick' = [NoTick EXCEPT !.ran = TRUE, !.deltaTime = deltaTime,
                                  !.nodeVoltages = nodeVoltages,
                                  !.simulated = <<components[k].id>>]
    /\ UNCHANGED <<wires, simulation, uuid, solver, selectedComponentIds, lastAdd>>

simulate(k, deltaTime, nodeVoltages) == simulateWithin(MaxCalls, k, deltaTime, nodeVoltages)

\* component.checkErrors() on the k-th component
checkErrors(k) ==
    /\ components[k].methods
    /\ lastTick' = [lastTick EXCEPT !.reported = CheckErrors(components[k])]
    /\ lastOp' = "checkErrors"
    /\ UNCHANGED <<components, wires, simulation, uuid, ticks, solver, selectedComponentIds, lastAdd>>

\* Fuse.replace() on the k-th component
replace(k) ==
    /\ components[k].type = "fuse" /\ components[k].methods
    /\ components' = [components EXCEPT ![k] = FuseReplace(@)]
    /\ lastOp' = "replace"
    /\ UNCHANGED <<wires, simulation, uuid, ticks, lastTick, solver, selectedComponentIds, lastAdd>>

\* Potentiometer.setPosition(percent) on the k-th component
setPosition(limit, k, percent) ==
    /\ ticks < limit
    /\ components[k].type = "potentiometer" /\ components[k].methods
    /\ components' = [components EXCEPT ![k] = PotentiometerSetPosition(@, percent)]
    /\ ticks' = ticks + 1
    /\ lastOp' = "setPosition"
    /\ UNCHANGED <<wires, simulation, uuid, lastTick, solver, selectedComponentIds, lastAdd>>

\* Battery.recharge() on the k-th component
recharge(k) ==
    /\ components[k].type = "battery" /\ components[k].methods
    /\ components' = [components EXCEPT ![k] = BatteryRecharge(@)]
    /\ lastOp' = "recharge"
    /\ UNCHANGED <<wires, simulation, uuid, ticks, lastTick, solver, selectedComponentIds, lastAdd>>

\* ------------------------------------------------------------------------
\* Circuits the store is loaded with
\* ------------------------------------------------------------------------
T(cid, name) == <<cid, name>>

\* a voltage source across one component with terminals a, b
Loop(cid, a, b) ==
    <<Wire("w1", T("vs", "positive"), T(cid, a)), Wire("w2", T(cid, b), T("vs", "negative"))>>

\* a voltage source across two components in series
Series(c1, a1, b1, c2, a2, b2) ==
    <<Wire("w1", T("vs", "positive"), T(c1, a1)), Wire("w2", T(c1, b1), T(c2, a2)),
      Wire("w3", T(c2, b2), T("vs", "negative"))>>

\* A voltage source whose waveform was set to square in the property panel.
SquareSource(cid, voltage, methods) ==
    [VoltageSource(cid, voltage, methods) EXCEPT !.properties.waveform.type = "square"]

Circuits ==
    { \* a 50 ohm resistor across 5 V: dissipates 0.5 W
      [components |-> <<VoltageSource("vs", N(5), TRUE), Resistor("r1", N(50), TRUE)>>,
       wires |-> Loop("r1", "terminal1", "terminal2")],
      \* a 1 A fuse across 5 V
      [components |-> <<VoltageSource("vs", N(5), TRUE), Fuse("f1", N(1), TRUE)>>,
       wires |-> Loop("f1", "in", "out")],
      \* the same, as the plain objects addComponent stores
      [components |-> <<VoltageSource("vs", N(5), FALSE), Fuse("f1", N(1), FALSE)>>,
       wires |-> Loop("f1", "in", "out")],
      \* a 5 ohm resistor across 5 V: dissipates 5 W and overheats
      [components |-> <<VoltageSource("vs", N(5), TRUE), Resistor("r1", N(5), TRUE)>>,
       wires |-> Loop("r1", "terminal1", "terminal2")],
      \* two fuses of the same rating in series
      [components |-> <<VoltageSource("vs", N(5), TRUE), Fuse("f1", N(1), TRUE),
                        Fuse("f2", N(1), TRUE)>>,
       wires |-> Series("f1", "in", "out", "f2", "in", "out")],
      \* a resistor that no wire connects, beside a source: a floating
      \* sub-network (plain objects)
      [components |-> <<VoltageSource("vs", N(5), FALSE), Resistor("r1", N(1000), FALSE)>>,
       wires |-> <<>>],
      \* a 1000 ohm resistor across a 5 V square-wave source
      [components |-> <<SquareSource("vs", N(5), TRUE), Resistor("r1", N(1000), TRUE)>>,
       wires |-> Loop("r1", "terminal1", "terminal2")],
      \* a ground reference (one terminal) wired to the source (plain objects)
      [components |-> <<VoltageSource("vs", N(5), FALSE), Ground("g", FALSE)>>,
       wires |-> <<Wire("w1", T("vs", "negative"), T("g", "ground"))>>] }

\* Faults handed to addError from outside the tick.
ExternalFaults ==
    { [id |-> <<"ui", "halt", 0>>, severity |-> "error", message |-> <<"halted by user">>,
       componentIds |-> <<"r1">>, stopSimulation |-> TRUE],
      [id |-> <<"f1", "blown", 0>>, severity |-> "warning", message |-> <<"fuse looks worn">>,
       componentIds |-> <<"f1">>, stopSimulation |-> FALSE] }

Init ==
    /\ \E c \in Circuits : components = c.components /\ wires = c.wires
    /\ simulation = InitialSimulation
    /\ uuid = 0
    /\ ticks = 0
    /\ lastOp = "init"
    /\ lastTick = NoTick
    /\ solver = NoSolver
    /\ selectedComponentIds = <<>>
    /\ lastAdd = NoAdd

Next ==
    \/ startSimulation
    \/ stopSimulation
    \/ \E dt \in DeltaTimes : stepSimulation(dt)
    \/ \E e \in ExternalFaults : addError(e)
    \/ clearErrors

Spec == Init /\ [][Next]_vars

\* ------------------------------------------------------------------------
\* Properties of the store (under Spec)
\* ------------------------------------------------------------------------
Running == simulation.running
Errors == simulation.errors
InList(errors, e) == \E k \in 1..Len(errors) : errors[k] = e
\* some listed fault has e's identity or e's message
Listed(errors, e) ==
    \E k \in 1..Len(errors) : errors[k].id = e.id \/ errors[k].message = e.message
Halting(errors) == {k \in 1..Len(errors) : errors[k].stopSimulation}
Warnings(errors) == {k \in 1..Len(errors) : ~errors[k].stopSimulation}

\* the last action was a running tick whose solve returned
TickSolved == lastOp = "stepSimulation" /\ lastTick.ran /\ lastTick.solved
\* the last action was a running tick whose solve threw
TickThrew == lastOp = "stepSimulation" /\ lastTick.ran /\ lastTick.threw

\* ids of the components that have a simulate method, in list order
Updatable(comps) ==
    LET with == SelectSeq(comps, LAMBDA c : c.methods)
    IN  [k \in 1..Len(with) |-> with[k].id]

\* C1: after a running tick whose solve succeeded, if any fault reported in
\* the tick (new or already listed) has the halt flag then the run is stopped
\* and every component with a per-tick update, those after the faulting one
\* included, was updated in the tick; if none has it, the run is still running.
C1_HaltAfterAllUpdates ==
    TickSolved =>
        IF Halting(lastTick.reported) # {}
        THEN ~Running /\ lastTick.simulated = Updatable(components)
        ELSE Running

\* A tick of three components in which a stopping fault was already listed by
\* identity (so it was not appended) and the run stopped.
C1_Witness ==
    /\ TickSolved
    /\ ~Running
    /\ Len(lastTick.simulated) = 3
    /\ \E k \in Halting(lastTick.reported) :
          /\ lastTick.reported[k].componentIds = <<lastTick.simulated[2]>>
          /\ ~InList(Errors, lastTick.reported[k])

\* C2: after a running tick whose solve threw, the run is stopped and the
\* fault list holds a halting synthetic fault, whatever the list held before.
C2_SolveFailureStopsRun ==
    TickThrew =>
        /\ ~Running
        /\ \E k \in Halting(Errors) : Errors[k].id[1] = "uuid"

\* C3: a tick on a structurally singular system does not come back from the
\* solver with a result: the solve fails, and no node voltage is NaN or
\* infinite.
C3_SingularSystemFails ==
    (lastOp = "stepSimulation" /\ lastTick.ran /\ lastTick.singular) =>
        /\ lastTick.threw
        /\ ~lastTick.solved

\* C4: a halting fault in the list is still in the list after every store
\* action other than clearErrors.
C4_HaltingFaultsStay ==
    [][\A k \in Halting(Errors) :
          InList(Errors', Errors[k]) \/ lastOp' = "clearErrors"]_vars

\* C5: a tick never drops a non-halting fault: those in the list before the
\* tick are in it after, and so are those the tick itself reported.
C5_WarningsStay ==
    [][lastOp' = "stepSimulation" =>
          /\ \A k \in Warnings(Errors) : InList(Errors', Errors[k])
          /\ \A k \in Warnings(lastTick'.reported) :
                Listed(Errors', lastTick'.reported[k])]_vars

NoDuplicates(errors) ==
    \A j, k \in 1..Len(errors) :
        j # k => errors[j].id # errors[k].id /\ errors[j].message # errors[k].message

\* C6: a tick leaves no two faults with the same identity or the same message
\* in a list that had none, and appends a reported fault only if no listed
\* fault has its id or its message.
C6_NoDuplicateFaults ==
    [][lastOp' = "stepSimulation" /\ NoDuplicates(Errors) =>
          /\ NoDuplicates(Errors')
          /\ \A k \in 1..Len(Errors') :
                InList(Errors, Errors'[k]) \/ ~Listed(Errors, Errors'[k])]_vars

\* A tick in which two components reported faults with one message and
\* different identities: the second was not appended.
C6_Witness ==
    /\ TickSolved
    /\ NoDuplicates(Errors)
    /\ Len(Errors) = 1
    /\ \E j, k \in 1..Len(lastTick.reported) :
          /\ lastTick.reported[j].id # lastTick.reported[k].id
          /\ lastTick.reported[j].message = lastTick.reported[k].message


\* The outcomes of a tick with frame time dt from the current state, over the
\* readings of the wall clock and the values uuidv4() may return.
TickOutcomes(dt) ==
    {Tick(components, wires, simulation, dt, now, id) : now \in Clock, id \in UuidValues}

\* C11: a tick is deterministic: from one state of the store and one
\* deltaTime, stepSimulation leaves the same components, wires, faults and
\* solved outputs whatever the wall clock reads and whatever uuidv4() returns.
C11_TickIsDeterministic ==
    \A dt \in DeltaTimes : Cardinality(TickOutcomes(dt)) = 1

\* The structure of the circuit: the components in order with their ids,
\* types and terminal ids, and the wires in order with their endpoints.
Topology(comps, ws) ==
    [components |-> [k \in 1..Len(comps) |->
                        [id |-> comps[k].id, type |-> comps[k].type,
                         terminals |-> [j \in 1..Len(comps[k].terminals) |->
                                           comps[k].terminals[j].id]]],
     wires |-> [k \in 1..Len(ws) |->
                  [id |-> ws[k].id, fromTerminal |-> ws[k].fromTerminal,
                   toTerminal |-> ws[k].toTerminal]]]

\* C16: stepSimulation never changes topology: whether the tick solves,
\* halts or fails, the components (order, ids, types, terminal ids and
\* count) and the wires (ids and endpoints) are after it what they were
\* before it.
C16_TickKeepsTopology ==
    [][lastOp' = "stepSimulation" =>
          Topology(components', wires') = Topology(components, wires)]_vars

\* A tick has solved the circuit, simulated components and written a wire
\* current and a solved component current that were not there before.
C16_Witness ==
    /\ lastOp = "stepSimulation"
    /\ lastTick.solved
    /\ Len(lastTick.simulated) > 0
    /\ \E k \in 1..Len(wires) : ~IsZero(wires[k].current)
    /\ \E k \in 1..Len(components) : ~IsZero(components[k].properties.current)

\* The voltage a simulate method of the last tick read for terminal tid, and
\* the voltage the solver found for the node that contains tid.
VoltageRead(tid) == NvGet(lastTick.nodeVoltages, tid)
VoltageOfNode(tid) == lastTick.nodeVoltages[TerminalToNode(components, wires)[tid]]

\* C19: in the per-tick update every component reads, for each of its
\* terminals, the solved voltage of the node that contains the terminal,
\* whether or not the terminal is the node's representative.
C19_ReadsNodeVoltage ==
    lastTick.solved =>
        \A k \in 1..Len(components) :
            components[k].id \in SeqToSet(lastTick.simulated) =>
                \A j \in 1..Len(components[k].terminals) :
                    VoltageRead(components[k].terminals[j].id)
                        = VoltageOfNode(components[k].terminals[j].id)

\* ------------------------------------------------------------------------
\* One fuse: in a loop with a source, ticked by the store, and driven
\* directly with chosen terminal voltages
\* ------------------------------------------------------------------------
Idle ==
    /\ simulation = InitialSimulation
    /\ uuid = 0
    /\ ticks = 0
    /\ lastOp = "init"
    /\ lastTick = NoTick
    /\ solver = NoSolver
    /\ selectedComponentIds = <<>>
    /\ lastAdd = NoAdd

FuseVolts == {Zero, Q(1, 100), Q(3, 100), Q(-1, 50)}

InitFuse ==
    /\ components = <<VoltageSource("vs", N(5), TRUE), Fuse("f1", N(1), TRUE)>>
    /\ wires = Loop("f1", "in", "out")
    /\ Idle

NextFuse ==
    \/ startSimulation
    \/ \E dt \in DeltaTimes : stepSimulation(dt)
    \/ \E dt \in DeltaTimes, v \in FuseVolts :
          simulate(2, dt, Across(components[2], v, Zero))
    \/ replace(2)

SpecFuse == InitFuse /\ [][NextFuse]_vars

\* A fuse held at three times its rating on every call.
FuseRatings == {N(1), N(2)}

SustainedVolts(comp) == MulQ(MulQ(N(3), comp.properties.rating), NearZero)

InitSustained ==
    /\ \E rating \in FuseRatings : components = <<Fuse("f1", rating, TRUE)>>
    /\ wires = <<>>
    /\ Idle

NextSustained ==
    \E dt \in DeltaTimes :
        simulateWithin(MaxSustained, 1, dt,
                       Across(components[1], SustainedVolts(components[1]), Zero))

SpecSustained == InitSustained /\ [][NextSustained]_vars

\* ------------------------------------------------------------------------
\* One lamp driven directly
\* ------------------------------------------------------------------------
LampVolts == {Zero, N(6), N(12), N(14), N(15), N(-15)}
LampRatings == {<<N(12), N(36)>>, <<N(6), N(12)>>}

InitLamp ==
    /\ \E r \in LampRatings : components = <<Lamp("l1", r[1], r[2], TRUE)>>
    /\ wires = <<>>
    /\ Idle

NextLamp ==
    \E dt \in DeltaTimes, v \in LampVolts :
        simulate(1, dt, Across(components[1], v, Zero))

SpecLamp == InitLamp /\ [][NextLamp]_vars

\* ------------------------------------------------------------------------
\* One battery driven directly
\* ------------------------------------------------------------------------
BatteryVolts == {Zero, N(8), N(9), N(12)}
BatteryCapacities == {N(1), N(4)}
BatteryTimes == {Zero, Q(1, 10)}

\* The voltage of the battery at full charge.
BatteryFullVolts == N(9)

InitBattery ==
    /\ \E capacity \in BatteryCapacities :
          components = <<Battery("b1", BatteryFullVolts, capacity, TRUE)>>
    /\ wires = <<>>
    /\ Idle

NextBattery ==
    \/ \E dt \in BatteryTimes, v \in BatteryVolts :
          simulateWithin(MaxDrains, 1, dt, Across(components[1], v, Zero))
    \/ recharge(1)

SpecBattery == InitBattery /\ [][NextBattery]_vars

\* ------------------------------------------------------------------------
\* Properties of the fuse (under SpecFuse and SpecSustained)
\* ------------------------------------------------------------------------
Fuses(comps) == {k \in 1..Len(comps) : comps[k].type = "fuse"}

\* the step called simulate on the component with this id
SimulatedNow(cid) ==
    /\ lastOp' \in {"simulate", "stepSimulation"}
    /\ cid \in SeqToSet(lastTick'.simulated)

\* C7: a blown fuse stays blown through every step other than replace(),
\* every tick leaves it with current 0, power 0 and the near-infinite
\* resistance, the solver stamps it with the near-infinite resistance, and
\* replace() clears blown and zeroes the accumulated heat.
C7_BlownIsTerminal ==
    [][\A k \in Fuses(components) :
          components[k].properties.blown =>
             LET after == components'[k].properties
             IN  IF lastOp' = "replace"
                 THEN ~after.blown /\ after.heatAccumulated = Zero
                 ELSE /\ after.blown
                      /\ StampResistance(components'[k]) = NearInfinite
                      /\ SimulatedNow(components[k].id) =>
                            /\ after.current = Zero
                            /\ after.power = Zero
                            /\ after.resistance = NearInfinite]_vars

\* A tick with a voltage across a fuse that was blown before it.
C7_Witness ==
    /\ lastOp \in {"simulate", "stepSimulation"}
    /\ \E k \in Fuses(components) :
          LET p == components[k].properties
          IN  /\ components[k].id \in SeqToSet(lastTick.simulated)
              /\ p.blown
              /\ p.voltage # Zero
              /\ p.current = Zero
              /\ p.resistance = NearInfinite

ShortestTick == CHOOSE dt \in DeltaTimes : \A other \in DeltaTimes : LeQ(dt, other)

\* C8: an intact fuse held at three times its rating gains 9 * deltaTime of
\* heat in each tick with a positive deltaTime, is blown after the tick
\* exactly when the heat then exceeds the threshold, is never over the
\* threshold while intact, and is blown once the ticks made, at the shortest
\* deltaTime, add more heat than the threshold.
C8_SustainedOvercurrentBlows ==
    /\ [][LET before == components[1].properties
              after == components'[1].properties
              dt == lastTick'.deltaTime
          IN  (/\ ~before.blown
               /\ GtQ(dt, Zero)
               /\ DivQ(AbsQ(after.current), after.rating) = N(3)) =>
                 /\ after.heatAccumulated = AddQ(before.heatAccumulated, MulQ(N(9), dt))
                 /\ after.blown <=> GtQ(after.heatAccumulated, N(BlowThreshold))]_vars
    /\ [](~components[1].properties.blown =>
             LeQ(components[1].properties.heatAccumulated, N(BlowThreshold)))
    /\ [](GtQ(MulQ(N(ticks), MulQ(N(9), ShortestTick)), N(BlowThreshold)) =>
             components[1].properties.blown)

\* The third tick of 1/10 s: the heat reaches 27/10 and the fuse blows.
C8_Witness ==
    /\ lastOp = "simulate"
    /\ ticks = 3
    /\ components[1].properties.blown
    /\ components[1].properties.heatAccumulated = Q(27, 10)
    /\ components[1].properties.current # Zero

\* ------------------------------------------------------------------------
\* Properties of the lamp (under SpecLamp)
\* ------------------------------------------------------------------------
\* C9: a tick on an intact lamp breaks it exactly when the power computed in
\* the tick exceeds 1.5 times the rated power; a tick on a broken lamp leaves
\* it broken with brightness 0, current 0 and power 0.
C9_LampBreaksOnce ==
    [][LET before == components[1].properties
          after == components'[1].properties
      IN  IF before.broken
          THEN /\ after.broken
               /\ after.brightness = SqrtOf(Zero)
               /\ after.current = Zero
               /\ after.power = Zero
          ELSE after.broken <=> GtQ(after.power, MulQ(Q(3, 2), after.powerRating))]_vars

\* A tick with a voltage across a lamp that was broken before it.
C9_Witness ==
    /\ lastOp = "simulate"
    /\ components[1].properties.broken
    /\ components[1].properties.voltage # Zero
    /\ components[1].properties.power = Zero
    /\ components[1].properties.brightness = SqrtOf(Zero)

\* ------------------------------------------------------------------------
\* Properties of the battery (under SpecBattery)
\* ------------------------------------------------------------------------
\* C10: a simulate call never raises chargeRemaining and never takes it below
\* 0, lowers it only when the current computed in the call is positive and
\* leaves it unchanged otherwise; a step that raises it is recharge().
C10_ChargeOnlyFalls ==
    [][LET before == components[1].properties.chargeRemaining
          after == components'[1].properties.chargeRemaining
          current == components'[1].properties.current
      IN  /\ LeQ(Zero, after)
          /\ GtQ(after, before) => lastOp' = "recharge"
          /\ lastOp' = "simulate" =>
                /\ LeQ(after, before)
                /\ LtQ(after, before) => GtQ(current, Zero)
                /\ ~GtQ(current, Zero) => after = before]_vars

\* A call that drew more than the charge left: chargeRemaining stops at 0.
C10_Witness ==
    /\ lastOp = "simulate"
    /\ components[1].properties.capacity = N(4)
    /\ components[1].properties.chargeRemaining = Zero
    /\ GtQ(components[1].properties.current, Zero)

\* ------------------------------------------------------------------------
\* The solver on a family of small circuits
\* ------------------------------------------------------------------------

SourceVolts == {N(5), N(9)}
Resistances == {N(50), N(1000)}

\* The component lists of the family, as addComponent stores them.
ComponentLists ==
    {<<VoltageSource("vs", v, FALSE), Resistor("r1", r, FALSE)>> :
        v \in SourceVolts, r \in Resistances}
    \cup {<<Resistor("r1", r, FALSE), VoltageSource("vs", v, FALSE)>> :
        v \in SourceVolts, r \in Resistances}
    \cup {<<Battery("b1", N(9), N(500), FALSE), Resistor("r1", N(50), FALSE)>>,
          <<Resistor("r1", N(50), FALSE), Battery("b1", N(9), N(500), FALSE)>>,
          <<Resistor("r1", N(50), FALSE), Resistor("r2", N(1000), FALSE)>>,
          <<Resistor("r1", N(50), FALSE), Ground("g", FALSE)>>,
          <<Resistor("r1", N(50), FALSE), Battery("b1", N(9), N(500), FALSE),
            VoltageSource("vs", N(5), FALSE)>>,
          <<VoltageSource("vs", N(5), FALSE), Resistor("r1", N(50), FALSE),
            Fuse("f1", N(1), FALSE)>>}

\* A terminal id that no component of the list owns.
UnknownTerminal == T("gone", "t")

\* Wire lists over the terminals of comps and the unknown terminal: up to
\* MaxWires wires between two different endpoints, in either direction.
WireLists(comps) ==
    LET ends == TerminalIds(comps) \o <<UnknownTerminal>>
        n == Len(ends)
        from(p) == ends[((p - 1) \div n) + 1]
        to(p) == ends[((p - 1) % n) + 1]
        picks == UNION {{ps \in [1..m -> 1..(n * n)] :
                            /\ \A k \in 1..m : from(ps[k]) # to(ps[k])
                            /\ \A k \in 1..(m - 1) : ps[k] < ps[k + 1]} :
                        m \in 0..MaxWires}
    IN  {[k \in 1..Len(ps) |-> Wire(<<"w", k>>, from(ps[k]), to(ps[k]))] : ps \in picks}

InitSolver ==
    /\ \E comps \in ComponentLists : \E ws \in WireLists(comps) :
          components = comps /\ wires = ws
    /\ Idle

NextSolver == solve

SpecSolver == InitSolver /\ [][NextSolver]_vars

\* ------------------------------------------------------------------------
\* Properties of the solver (under SpecSolver)
\* ------------------------------------------------------------------------
Returned == solver.ran /\ ~solver.threw

\* The nodes that carry the ground sentinel.
GroundNodes == {r \in DOMAIN solver.nodeIndex : solver.nodeIndex[r] = GroundIndex}

\* C12: when solve() returns on lists with at least one terminal, exactly one
\* node carries the ground sentinel, and nodeVoltages maps it to exactly 0.
C12_GroundIsZero ==
    Returned /\ TerminalIds(components) # <<>> =>
        /\ Cardinality(GroundNodes) = 1
        /\ \A r \in GroundNodes :
              /\ r \in DOMAIN solver.result.nodeVoltages
              /\ solver.result.nodeVoltages[r] = Zero

\* solve() returned on a circuit without a voltage source in which another
\* node is at a voltage other than 0.
C12_Witness ==
    /\ Returned
    /\ \A k \in 1..Len(components) : ~IsGroundSourceType(components[k].type)
    /\ Cardinality(GroundNodes) = 1
    /\ \E r \in DOMAIN solver.nodeIndex :
          r \notin GroundNodes /\ solver.result.nodeVoltages[r] = N(9)

\* The terminals of the components, and the wires that join two of them.
KnownTerminals == SeqToSet(TerminalIds(components))

JoiningWires ==
    {k \in 1..Len(wires) :
        wires[k].fromTerminal \in KnownTerminals /\ wires[k].toTerminal \in KnownTerminals}

\* The terminals a chain of joining wires leads to from the terminals in S.
RECURSIVE WiredTo(_)
WiredTo(S) ==
    LET more == S \cup {wires[k].toTerminal : k \in {j \in JoiningWires :
                                                      wires[j].fromTerminal \in S}}
                   \cup {wires[k].fromTerminal : k \in {j \in JoiningWires :
                                                        wires[j].toTerminal \in S}}
    IN  IF more = S THEN S ELSE WiredTo(more)

\* C13: identifyNodes maps every terminal to exactly one node, every node has
\* at least one terminal, and two terminals share a node exactly when a chain
\* of wires with two known endpoints links them.
C13_NodesAreWiredGroups ==
    solver.ran =>
        /\ DOMAIN solver.terminalToNode = KnownTerminals
        /\ \A t \in KnownTerminals :
              {r \in DOMAIN solver.nodes : t \in SeqToSet(solver.nodes[r])}
                  = {solver.terminalToNode[t]}
        /\ \A r \in DOMAIN solver.nodes : Len(solver.nodes[r]) >= 1
        /\ \A a, b \in KnownTerminals :
              (solver.terminalToNode[a] = solver.terminalToNode[b]) <=> (b \in WiredTo({a}))

\* identifyNodes ran on a circuit where two wires chain three terminals into
\* one node.
C13_Witness ==
    /\ solver.ran
    /\ Cardinality(JoiningWires) = 2
    /\ \E r \in DOMAIN solver.nodes : Len(solver.nodes[r]) = 3

\* The components of the source family: dedicated voltage source, battery,
\* ground reference.
SourceFamily == {k \in 1..Len(components) : components[k].type \in VoltageBearingTypes}

\* C14: if the list holds a voltage source, a battery or a ground reference,
\* the ground node is the node of the second terminal of such a component;
\* only without any is it the first node in discovery order.
C14_GroundFromSourceFamily ==
    solver.ran /\ TerminalIds(components) # <<>> =>
        IF SourceFamily # {}
        THEN \E k \in SourceFamily :
                /\ Len(components[k].terminals) >= 2
                /\ GroundNodes = {solver.terminalToNode[components[k].terminals[2].id]}
        ELSE GroundNodes = {solver.nodeIds[1]}

\* The positions in discovery order of the nodes that are not ground.
NonGroundPositions == {k \in 1..Len(solver.nodeIds) : solver.nodeIds[k] \notin GroundNodes}

\* C15: after identifyNodes the N non-ground nodes carry the row indices
\* 0..N-1, each once and in discovery order, the ground node carries the
\* sentinel -1, and the matrix has N rows plus one per voltage-bearing
\* component.
C15_RowIndices ==
    solver.ran =>
        /\ DOMAIN solver.nodeIndex = SeqToSet(solver.nodeIds)
        /\ \A j, k \in 1..Len(solver.nodeIds) : j # k => solver.nodeIds[j] # solver.nodeIds[k]
        /\ solver.nodeIds # <<>> => Cardinality(GroundNodes) = 1
        /\ {solver.nodeIndex[solver.nodeIds[k]] : k \in NonGroundPositions}
              = 0..(Cardinality(NonGroundPositions) - 1)
        /\ \A j, k \in NonGroundPositions :
              j < k => solver.nodeIndex[solver.nodeIds[j]] < solver.nodeIndex[solver.nodeIds[k]]
        /\ solver.size = Cardinality(NonGroundPositions) + Cardinality(SourceFamily)

\* identifyNodes ran on a circuit with two voltage-bearing components whose
\* ground node is discovered after one node and before another.
C15_Witness ==
    /\ solver.ran
    /\ Cardinality(SourceFamily) = 2
    /\ \E j, k \in NonGroundPositions, g \in 1..Len(solver.nodeIds) :
          j < g /\ g < k /\ solver.nodeIds[g] \in GroundNodes
    /\ solver.size = Len(solver.nodeIds) + 1

\* ------------------------------------------------------------------------
\* The editor: the store from its initial state under addComponent, addWire
\* and the selection actions
\* ------------------------------------------------------------------------
\* The terminal id of a component that is no longer in the store.
StaleTerminal == T(Uuid(0), "terminal1")

InitEdit ==
    /\ components = <<>>
    /\ wires = <<>>
    /\ Idle

NextEdit ==
    \/ \E type \in ComponentType : addComponent(type)
    \/ \E from, to \in SeqToSet(TerminalIds(components)) \cup {StaleTerminal} :
          addWire(from, to)
    \/ \E id \in {components[k].id : k \in 1..Len(components)} \cup {Uuid(0)},
          multiSelect \in BOOLEAN :
          selectComponent(id, multiSelect)
    \/ deselectAll
    \/ \E k \in 1..Len(components) : removeComponent(components[k].id)
    \/ \E k \in 1..Len(wires) : removeWire(wires[k].id)

SpecEdit == InitEdit /\ [][NextEdit]_vars

\* ------------------------------------------------------------------------
\* Properties of the editor (under SpecEdit)
\* ------------------------------------------------------------------------
\* The kinds the factory has a case for (ComponentFactory.ts 33-68).
FactoryKinds ==
    {"resistor", "capacitor", "inductor", "diode", "led", "fuse", "voltage_source",
     "battery", "ground", "switch", "potentiometer", "lamp"}

\* C17: a request for a kind the factory has no case for is rejected:
\* addComponent leaves the component list, the wire list and the selection
\* as they were, and no component of such a kind is ever in the list.
C17_UnimplementedKindRejected ==
    /\ [][lastOp' = "addComponent" /\ lastAdd'.type \notin FactoryKinds =>
             UNCHANGED <<components, wires, selectedComponentIds>>]_vars
    /\ [](\A k \in 1..Len(components) : components[k].type \in FactoryKinds)

\* A kind without a case was requested from a store that holds a selected
\* component and a wire.
C17_Witness ==
    /\ lastOp = "addComponent"
    /\ lastAdd.type \in ComponentType \ FactoryKinds
    /\ ~lastAdd.created
    /\ Len(components) > 0 /\ Len(wires) > 0 /\ Len(selectedComponentIds) > 0

\* C18: every component the factory creates, the ground reference included,
\* has exactly two terminals.
C18_TwoTerminals ==
    \A k \in 1..Len(components) : Len(components[k].terminals) = 2

\* ------------------------------------------------------------------------
\* Properties of the solver on the one-resistor loop (under SpecSolver)
\* ------------------------------------------------------------------------
\* The list holds one voltage source comps[s] and one resistor comps[r], and
\* the wires join the source's first terminal to one end of the resistor and
\* its second terminal to the other end.
ResistorAcross(s, r) ==
    /\ Len(components) = 2
    /\ components[s].type = "voltage_source"
    /\ components[r].type = "resistor"
    /\ \E a, b \in 1..2 :
          /\ a # b
          /\ WiredTo({components[s].terminals[1].id})
                = {components[s].terminals[1].id, components[r].terminals[a].id}
          /\ WiredTo({components[s].terminals[2].id})
                = {components[s].terminals[2].id, components[r].terminals[b].id}

\* C20: for one resistor R across a DC source V, whose second terminal is
\* ground, solve() returns a resistor drop of magnitude V and a resistor
\* current of magnitude V / R.
C20_OhmsLaw ==
    \A s, r \in 1..Len(components) :
        solver.ran /\ ResistorAcross(s, r) =>
            /\ ~solver.threw
            /\ solver.nodeIndex[solver.terminalToNode[components[s].terminals[2].id]]
                  = GroundIndex
            /\ AbsQ(solver.result.componentVoltages[components[r].id])
                  = components[s].properties.voltage
            /\ AbsQ(solver.result.componentCurrents[components[r].id])
                  = DivQ(components[s].properties.voltage, components[r].properties.value)

\* solve() has run on 1000 ohm across 5 V and returned 5 V and 0.005 A.
C20_Witness ==
    \E s, r \in 1..Len(components) :
        /\ Returned
        /\ ResistorAcross(s, r)
        /\ components[s].properties.voltage = N(5)
        /\ components[r].properties.value = N(1000)
        /\ AbsQ(solver.result.componentVoltages[components[r].id]) = N(5)
        /\ AbsQ(solver.result.componentCurrents[components[r].id]) = Q(1, 200)

\* ------------------------------------------------------------------------
\* One component of each kind the factory builds: ticked alone by the store
\* and driven directly with chosen terminal voltages
\* ------------------------------------------------------------------------
DrivenVolts == {Zero, N(3), N(60), N(-60)}
DrivenTimes == {Q(1, 10)}
\* Properties set from outside, and the values they are set to.
PanelKeys == {"current", "power", "voltage", "chargeRemaining", "maxCurrent"}
PanelValues == {Zero, N(100)}
\* Arguments of setPosition: the two ends, a position between them and one
\* beyond each end.
WiperPercents == {N(-20), Zero, N(25), N(100), N(150)}

InitKinds ==
    /\ \E type \in FactoryKinds : components = <<createComponent("c1", type)>>
    /\ wires = <<>>
    /\ Idle

NextKinds ==
    \/ startSimulation
    \/ \E dt \in DeltaTimes : stepSimulation(dt)
    \/ \E dt \in DrivenTimes, v1, v2 \in DrivenVolts :
          simulateWithin(MaxDriven, 1, dt, Across(components[1], v1, v2))
    \/ checkErrors(1)
    \/ \E key \in PanelKeys, value \in PanelValues : updateProperty(MaxDriven, 1, key, value)
    \/ \E percent \in WiperPercents : setPosition(MaxDriven, 1, percent)

SpecKinds == InitKinds /\ [][NextKinds]_vars

\* ------------------------------------------------------------------------
\* Properties of the faults (under SpecKinds)
\* ------------------------------------------------------------------------
\* The faults in the store's list and those the last call reported.
FaultsSeen == SeqToSet(Errors) \cup SeqToSet(lastTick.reported)

\* C21: every fault a checkErrors reports, and the synthetic fault of a
\* failed solve, has stopSimulation false exactly when its severity is
\* warning and true exactly when its severity is error or critical.
C21_HaltFlagFollowsSeverity ==
    \A e \in FaultsSeen :
        /\ e.severity \in {"warning", "error", "critical"}
        /\ ~e.stopSimulation <=> e.severity = "warning"
        /\ e.stopSimulation <=> e.severity \in {"error", "critical"}

\* One checkErrors call reported a warning and a halting fault.
C21_Witness ==
    /\ lastOp = "checkErrors"
    /\ \E e, f \in SeqToSet(lastTick.reported) :
          /\ e.severity = "warning" /\ ~e.stopSimulation
          /\ f.severity \in {"error", "critical"} /\ f.stopSimulation

\* ------------------------------------------------------------------------
\* Starting a simulation that is already running (under Spec)
\* ------------------------------------------------------------------------

\* C22: startSimulation called while the simulation is running leaves
\* simulation.time and simulation.errors as they were.
C22_StartWhileRunningIsNoOp ==
    [][simulation.running /\ lastOp' = "startSimulation" =>
          /\ simulation'.time = simulation.time
          /\ simulation'.errors = simulation.errors]_vars

\* ------------------------------------------------------------------------
\* The potentiometer in the solver (under SpecKinds)
\* ------------------------------------------------------------------------

\* The potentiometer's value property is the one its wiper position gives
\* (the constructor and every simulate set it so).
ValueIsFresh(comp) ==
    comp.properties.value =
        DivQ(MulQ(comp.properties.maxResistance, comp.properties.position), N(100))

\* C23: for every wiper position in 0..100, 0 included, the resistance the
\* solver stamps for a potentiometer is maxResistance * position / 100 kept
\* at or above the small positive minimum, the resistance simulate uses.
C23_StampedWiperResistance ==
    \A k \in 1..Len(components) :
        LET comp == components[k] IN
        comp.type = "potentiometer" /\ ValueIsFresh(comp)
            /\ LeQ(Zero, comp.properties.position)
            /\ LeQ(comp.properties.position, N(100)) =>
                StampResistance(comp) =
                    WiperResistance(comp.properties.maxResistance, comp.properties.position)

\* ------------------------------------------------------------------------
\* The voltage-bearing kinds in the solver (under SpecKinds)
\* ------------------------------------------------------------------------

\* C24: for every voltage-bearing component whose branch row is stamped
\* (both terminals exist), the right-hand side of the row is the component's
\* present voltage property, 0 included.
C24_BranchRowCarriesVoltage ==
    \A k \in 1..Len(components) :
        LET comp == components[k] IN
        comp.type \in VoltageBearingTypes /\ Len(comp.terminals) >= 2 =>
            BranchVoltage(comp) = comp.properties.voltage

\* ------------------------------------------------------------------------
\* The sag of the battery's voltage (under SpecBattery)
\* ------------------------------------------------------------------------
SagFloor == Q(7, 10)

\* C25: a simulate call that leaves the charge fraction above the floor does
\* not change the battery's voltage, and the voltage never falls below the
\* floor factor times its value at full charge.
C25_SagOnlyBelowFloor ==
    [][lastOp' = "simulate" =>
          LET before == components[1].properties
              after == components'[1].properties
          IN  /\ GtQ(DivQ(after.chargePercent, N(100)), SagFloor) =>
                    after.voltage = before.voltage
              /\ LeQ(MulQ(SagFloor, BatteryFullVolts), after.voltage)]_vars

\* The second half of C25 alone: the voltage stays at or above 0.7 times the
\* full-charge voltage.
C25_VoltageFloor ==
    LeQ(MulQ(SagFloor, BatteryFullVolts), components[1].properties.voltage)

\* ------------------------------------------------------------------------
\* A capacitor across a voltage source, ticked by the store
\* ------------------------------------------------------------------------
CapacitorCircuits ==
    {[components |-> <<VoltageSource("vs", v, TRUE), Capacitor("c1", Q(1, 10000), TRUE)>>,
      wires |-> Loop("c1", ab[1], ab[2])] :
        v \in SourceVolts,
        ab \in {<<"positive", "negative">>, <<"negative", "positive">>}}
    \cup {[components |-> <<Capacitor("c1", Q(1, 10000), TRUE), VoltageSource("vs", v, TRUE)>>,
           wires |-> Loop("c1", "positive", "negative")] : v \in SourceVolts}

InitCapacitor ==
    /\ \E c \in CapacitorCircuits : components = c.components /\ wires = c.wires
    /\ Idle

NextCapacitor ==
    \/ startSimulation
    \/ stopSimulation
    \/ \E dt \in DeltaTimes : stepSimulation(dt)

SpecCapacitor == InitCapacitor /\ [][NextCapacitor]_vars

\* The current of a capacitor whose voltage went from previous to solved
\* within deltaTime (Capacitor.ts 41-45).
ChargingCurrent(comp, previous, solved, deltaTime) ==
    MulQ(OrElse(comp.properties.capacitance, Q(1, 10000)),
         DivQ(SubQ(solved, previous), MaxQ(deltaTime, Q(1, 1000))))

\* C26: in every tick that solves the circuit and updates the capacitor, the
\* capacitor's current is capacitance * (voltage of this tick - voltage held
\* at the end of the previous tick) / deltaTime.  The voltage of this tick is
\* taken either as the drop the solver returned for the capacitor or as the
\* voltage the capacitor holds after its update.
C26_CurrentFromPreviousVoltage ==
    [][\A k \in 1..Len(components) :
          /\ components[k].type = "capacitor"
          /\ lastOp' = "stepSimulation" /\ lastTick'.solved
          /\ components[k].id \in SeqToSet(lastTick'.simulated)
          => LET previous == components[k].properties.voltage
                 after == components'[k].properties
                 result == Solve(components, wires)
             IN  \E solved \in {result.componentVoltages[components[k].id], after.voltage} :
                    after.current =
                        ChargingCurrent(components[k], previous, solved, lastTick'.deltaTime)]_vars

\* ------------------------------------------------------------------------
\* Wires and selection under removal (under SpecEdit)
\* ------------------------------------------------------------------------

\* C27: every wire in the store has both endpoints among the terminals of
\* the components in the store (removeComponent takes the wires of the
\* removed component with it).
C27_NoDanglingWire ==
    \A k \in 1..Len(wires) :
        /\ wires[k].fromTerminal \in SeqToSet(TerminalIds(components))
        /\ wires[k].toTerminal \in SeqToSet(TerminalIds(components))

\* ------------------------------------------------------------------------
\* Ticks of a stopped simulation (under Spec)
\* ------------------------------------------------------------------------

\* C28: a stepSimulation call made while simulation.running is false changes
\* nothing in the store: not the components, the wires, the clock, the fault
\* list or the selection, and it draws no uuid.
C28_StoppedTickChangesNothing ==
    [][~simulation.running /\ lastOp' = "stepSimulation" =>
          UNCHANGED <<components, wires, simulation, uuid, selectedComponentIds>>]_vars

\* stepSimulation was called on a simulation that a fault had halted after
\* the clock had advanced.
C28_Witness ==
    /\ lastOp = "stepSimulation"
    /\ ~lastTick.ran
    /\ ~simulation.running
    /\ GtQ(simulation.time, Zero)
    /\ Len(Errors) > 0

\* ------------------------------------------------------------------------
\* The LED's current (under SpecKinds)
\* ------------------------------------------------------------------------
LEDs(comps) == {k \in 1..Len(comps) : comps[k].type = "led"}

Overcurrent(faults) == \E j \in 1..Len(faults) : faults[j].id[2] = "overcurrent"

\* C29: for an LED whose maxCurrent is positive, simulate leaves the current
\* within 0..maxCurrent, and a checkErrors that directly follows simulate, as
\* a call of its own or inside a store tick, does not report overcurrent.
C29_LEDWithinRating ==
    [][\A k \in LEDs(components) :
          GtQ(components[k].properties.maxCurrent, Zero) =>
              /\ SimulatedNow(components[k].id) =>
                    /\ LeQ(Zero, components'[k].properties.current)
                    /\ LeQ(components'[k].properties.current,
                           components'[k].properties.maxCurrent)
                    /\ ~Overcurrent(lastTick'.reported)
              /\ lastOp = "simulate" /\ lastOp' = "checkErrors" =>
                    ~Overcurrent(lastTick'.reported)]_vars

\* checkErrors on an LED that simulate has just left conducting at its
\* maximum current: no overcurrent is reported.
C29_Witness ==
    /\ lastOp = "checkErrors"
    /\ lastTick.ran /\ lastTick.simulated = <<components[1].id>>
    /\ components[1].type = "led"
    /\ GtQ(components[1].properties.maxCurrent, Zero)
    /\ components[1].properties.current = components[1].properties.maxCurrent
    /\ ~Overcurrent(lastTick.reported)

\* C30: a component in the store has its selected flag set exactly when its
\* id is in selectedComponentIds, and right after an addComponent that
\* stored a component the new component, the last of the list, is the only
\* selected one.
C30_SelectionConsistent ==
    /\ [](\A k \in 1..Len(components) :
             components[k].selected <=> components[k].id \in SeqToSet(selectedComponentIds))
    /\ [][lastOp' = "addComponent" /\ lastAdd'.created =>
             LET n == Len(components') IN
             /\ n = Len(components) + 1
             /\ selectedComponentIds' = <<components'[n].id>>
             /\ \A k \in 1..n : components'[k].selected <=> k = n]_vars

\* A second component was added to a store whose first component was
\* selected: the first is no longer selected, the new one is.
C30_Witness ==
    /\ lastOp = "addComponent" /\ lastAdd.created
    /\ Len(components) = 2
    /\ ~components[1].selected /\ components[2].selected
    /\ selectedComponentIds = <<components[2].id>>

====
